---- MODULE Spec2Model ----
(***************************************************************************)
(* Resource-graph state engine of the Cutthroat Companies companion app:   *)
(* values, histories and the undo log of useResources, the noise tick of   *)
(* useEconomicNoise and the contract lifecycle of useContracts.            *)
(*                                                                         *)
(* React state is modelled at the granularity of one event: every handler  *)
(* runs against the closures of the last render (the rendered values) and  *)
(* queues updater functions that are applied in order to the latest state. *)
(***************************************************************************)
EXTENDS Integers, Sequences, FiniteSets, TLC

VARIABLES
    values,             \* useResources: values            (name -> number)
    histories,          \* useResources: histories         (name -> samples)
    actionLog,          \* useResources: actionLog         (change-groups)
    ignoreMin,          \* useResources: ignoreMin
    tickVals,           \* values closed over by the setResourceValue that the
                        \* memoised noise tick calls (re-captured only when
                        \* ignoreMin changes)
    noiseActive,        \* useEconomicNoise: active
    paused,             \* App: paused
    contracts,          \* useContracts: contracts (newest first)
    currentTargetValue, \* useContracts: currentTargetValue, in 1/Scale units
    contractCount,      \* App: contractCount            (setting)
    contractDifficulty, \* useContracts: contractDifficulty, in hundredths
    maxResources,       \* App: maxContractResources     (setting)
    rewardMinMultiplier, \* App: contractRewardMin, in tenths (setting)
    rewardMaxMultiplier, \* App: contractRewardMax, in tenths (setting)
    labelPool,          \* ContractLabels, the pool the labels are drawn from
    rawResources,       \* constants/resources.js: rawResources
    tierCache,          \* constants/resources.js: outcome of the tier pass
    noiseInterval,      \* App: noiseIntervalMs, in seconds (setting)
    ticked,             \* the rolls of the noise ticks the last operation ran
    card,               \* Contract: the card of the decaying contract
    gen,                \* generateRandomContract: the locals of a running call
    lastOp,             \* the operation that produced the current state
    before,             \* before[i]: the values that held before actionLog[i]
    steps,              \* number of operations performed so far
    budget              \* number of operations the run may perform

vars == <<values, histories, actionLog, ignoreMin, tickVals, noiseActive,
          paused, contracts, currentTargetValue, contractCount,
          contractDifficulty, maxResources, rewardMinMultiplier,
          rewardMaxMultiplier, labelPool, rawResources, tierCache,
          noiseInterval, ticked, card, gen, lastOp, before, steps, budget>>

----------------------------------------------------------------------------
(* Bounds of the model *)

MaxSteps == 3
SetSteps == 4
DeepSteps == 5
NoiseSteps == 3
ContractSteps == 2
LifeSteps == 5
FairSteps == 4
RewardSteps == 3
LabelSteps == 4
EscalatorSteps == 4
BundleSteps == 2
WearSteps == 5
GenerateSteps == 6
QtyCap == 25
InputSteps == 3
ScheduleSteps == 3
CardSteps == 5
DecayFrames == 2
IntervalSteps == 1
MaxComponents == 2
MaxMoves == 1

----------------------------------------------------------------------------
(* Resource graph: rawResources *)

ResourceOrder == <<"iron", "coal", "oil", "steel", "plastics", "consumer_goods">>

Resources == {ResourceOrder[i] : i \in 1..Len(ResourceOrder)}

Components ==
    [r \in Resources |->
        CASE r = "steel" -> <<"iron", "coal">>
          [] r = "plastics" -> <<"oil", "coal">>
          [] r = "consumer_goods" -> <<"steel", "plastics">>
          [] OTHER -> << >>]

BaseMin ==
    [r \in Resources |->
        CASE r = "coal" -> 10
          [] OTHER -> 5]

SeqToSet(s) == {s[i] : i \in 1..Len(s)}

RECURSIVE DependentsFrom(_, _)
DependentsFrom(c, i) ==
    IF i > Len(ResourceOrder) THEN << >>
    ELSE IF c \in SeqToSet(Components[ResourceOrder[i]])
         THEN <<ResourceOrder[i]>> \o DependentsFrom(c, i + 1)
         ELSE DependentsFrom(c, i + 1)

dependentsMap == [c \in Resources |-> DependentsFrom(c, 1)]

----------------------------------------------------------------------------
(* computeMin and the comparison against a possibly undefined minimum *)

RECURSIVE SumOver(_, _, _)
SumOver(comps, i, currentValues) ==
    IF i > Len(comps) THEN 0
    ELSE currentValues[comps[i]] + SumOver(comps, i + 1, currentValues)

MinIsNumber(r, currentValues) ==
    \/ Components[r] = << >>
    \/ \A c \in SeqToSet(Components[r]) : c \in DOMAIN currentValues

computeMin(r, currentValues) ==
    IF Components[r] = << >> THEN BaseMin[r]
    ELSE SumOver(Components[r], 1, currentValues)

\* `v < min` as JavaScript evaluates it: false when min is NaN
BelowMin(v, r, currentValues) ==
    MinIsNumber(r, currentValues) /\ v < computeMin(r, currentValues)

----------------------------------------------------------------------------
(* buildInitial *)

RECURSIVE BuildVals(_, _)
BuildVals(i, initVals) ==
    IF i > Len(ResourceOrder) THEN initVals
    ELSE LET r == ResourceOrder[i]
             v == computeMin(r, initVals)
         IN BuildVals(i + 1, [x \in (DOMAIN initVals) \cup {r} |->
                                 IF x = r THEN v ELSE initVals[x]])

NoVals == [x \in {} |-> 0]

buildInitial ==
    LET initVals == BuildVals(1, NoVals)
    IN [initVals |-> initVals,
        initHist |-> [r \in Resources |-> <<initVals[r]>>]]

----------------------------------------------------------------------------
(* The engine state the updaters work on: [values, histories, actionLog] *)

Engine(v, h, l) == [values |-> v, histories |-> h, actionLog |-> l]

Change(n, p, x, c) ==
    [name |-> n, prevValue |-> p, nextValue |-> x, cascading |-> c]

\* the breadth-first cascade of setResourceValue; acc = [queue, visited,
\* newVals, cascadeAdjustments]
RECURSIVE CascadeDependents(_, _, _)
CascadeDependents(deps, i, acc) ==
    IF i > Len(deps) THEN acc
    ELSE LET depName == deps[i]
             depMin == computeMin(depName, acc.newVals)
             depPrev == acc.newVals[depName]
         IN IF depPrev < depMin
            THEN CascadeDependents(deps, i + 1,
                   [queue |-> IF depName \in acc.visited THEN acc.queue
                              ELSE Append(acc.queue, depName),
                    visited |-> acc.visited \cup {depName},
                    newVals |-> [acc.newVals EXCEPT ![depName] = depMin],
                    cascadeAdjustments |->
                        Append(acc.cascadeAdjustments,
                               Change(depName, depPrev, depMin, TRUE))])
            ELSE CascadeDependents(deps, i + 1, acc)

\* a cascade that stops after the dependents of the edited resource
CascadeDirectOnly(acc) ==
    IF acc.queue = << >> THEN acc
    ELSE CascadeDependents(dependentsMap[Head(acc.queue)], 1,
                           [acc EXCEPT !.queue = << >>])

\* a cascade that follows every raised dependent at once, before the
\* remaining dependents of the same resource are looked at
RECURSIVE CascadeInto(_, _, _)
CascadeInto(deps, i, acc) ==
    IF i > Len(deps) THEN acc
    ELSE LET depName == deps[i]
             depMin == computeMin(depName, acc.newVals)
             depPrev == acc.newVals[depName]
         IN IF depPrev < depMin
            THEN CascadeInto(deps, i + 1,
                   CascadeInto(dependentsMap[depName], 1,
                     [acc EXCEPT !.newVals[depName] = depMin,
                                 !.cascadeAdjustments =
                                     Append(@, Change(depName, depPrev,
                                                      depMin, TRUE))]))
            ELSE CascadeInto(deps, i + 1, acc)

CascadeDepthFirst(acc) ==
    IF acc.queue = << >> THEN acc
    ELSE CascadeInto(dependentsMap[Head(acc.queue)], 1,
                     [acc EXCEPT !.queue = << >>])

RECURSIVE CascadeLoop(_)
CascadeLoop(acc) ==
    IF acc.queue = << >> THEN acc
    ELSE LET current == Head(acc.queue)
         IN CascadeLoop(CascadeDependents(dependentsMap[current], 1,
                            [acc EXCEPT !.queue = Tail(acc.queue)]))

RECURSIVE AppendSamples(_, _, _)
AppendSamples(hist, grouped, i) ==
    IF i > Len(grouped) THEN hist
    ELSE AppendSamples(
            [hist EXCEPT ![grouped[i].name] = Append(@, grouped[i].nextValue)],
            grouped, i + 1)

\* Proposed values are integers in the model. Values that are not finite
\* numbers are written as codes beyond every value of a run:
\* Infinity and -Infinity (typeof 'number', not NaN) as Infinity and its
\* negative, NaN and the empty string (which trim() leaves empty, so it is
\* not parsed) as the two codes above Infinity.
Infinity == 1000000

NotANumber == 1000001

EmptyString == 1000002

\* typeof nextValue === 'number' && !Number.isNaN(nextValue)
IsNumber(proposed) == proposed \notin {NotANumber, EmptyString}

\* a resource name that rawResources does not declare
UnknownName == "unobtainium"

\* a setResourceValue that cascades whatever the mode and the direction
setResourceValueAlwaysCascades(st, name, proposed, boundVals, ign) ==
    IF name \notin Resources THEN st
    ELSE IF ~IsNumber(proposed) THEN st
    ELSE
    LET prevValue == st.values[name]
        nextValue == IF ~ign /\ BelowMin(proposed, name, boundVals)
                     THEN computeMin(name, boundVals)
                     ELSE proposed
        newVals == [st.values EXCEPT ![name] = nextValue]
        primaryChange == Change(name, prevValue, nextValue, FALSE)
        start == [queue |-> <<name>>, visited |-> {name},
                  newVals |-> newVals, cascadeAdjustments |-> << >>]
        done == CascadeLoop(start)
        grouped == <<primaryChange>> \o done.cascadeAdjustments
    IN Engine(done.newVals,
              AppendSamples(st.histories, grouped, 1),
              Append(st.actionLog, grouped))

\* setResourceValue(name, value) called from a closure whose getBounds sees
\* boundVals and whose ignoreMin is ign; prevVals is st.values
setResourceValue(st, name, proposed, boundVals, ign) ==
    IF name \notin Resources THEN st
    ELSE IF ~IsNumber(proposed) THEN st
    ELSE
    LET prevValue == st.values[name]
        nextValue == IF ~ign /\ BelowMin(proposed, name, boundVals)
                     THEN computeMin(name, boundVals)
                     ELSE proposed
        newVals == [st.values EXCEPT ![name] = nextValue]
        primaryChange == Change(name, prevValue, nextValue, FALSE)
        start == [queue |-> <<name>>, visited |-> {name},
                  newVals |-> newVals, cascadeAdjustments |-> << >>]
        done == IF ~ign /\ nextValue > prevValue THEN CascadeLoop(start)
                ELSE start
        grouped == <<primaryChange>> \o done.cascadeAdjustments
    IN Engine(done.newVals,
              AppendSamples(st.histories, grouped, 1),
              Append(st.actionLog, grouped))

----------------------------------------------------------------------------
(* undoLastChange *)

\* an undo that puts back the primary record only
RECURSIVE RevertPrimaryOnly(_, _, _)
RevertPrimaryOnly(vals, changes, i) ==
    IF i > Len(changes) THEN vals
    ELSE RevertPrimaryOnly(
            IF changes[i].cascading THEN vals
            ELSE [vals EXCEPT ![changes[i].name] = changes[i].prevValue],
            changes, i + 1)

RECURSIVE RevertValues(_, _, _)
RevertValues(vals, changes, i) ==
    IF i > Len(changes) THEN vals
    ELSE RevertValues([vals EXCEPT ![changes[i].name] = changes[i].prevValue],
                      changes, i + 1)

RECURSIVE DropTail(_, _)
DropTail(arr, lastAppliedNextValues) ==
    IF arr # << >> /\ arr[Len(arr)] \in lastAppliedNextValues
    THEN DropTail(SubSeq(arr, 1, Len(arr) - 1), lastAppliedNextValues)
    ELSE arr

Reverse(s) == [i \in 1..Len(s) |-> s[Len(s) + 1 - i]]

RevertHistories(hPrev, changes) ==
    LET touched == {changes[i].name : i \in 1..Len(changes)}
    IN [name \in DOMAIN hPrev |->
          IF name \in touched
          THEN DropTail(hPrev[name],
                        {changes[i].nextValue :
                            i \in {j \in 1..Len(changes) : changes[j].name = name}})
          ELSE hPrev[name]]

undoLastChange(st) ==
    IF st.actionLog = << >> THEN st
    ELSE LET prev == st.actionLog
             newLog == SubSeq(prev, 1, Len(prev) - 1)
             changes == Reverse(prev[Len(prev)])
         IN Engine(RevertValues(st.values, changes, 1),
                   RevertHistories(st.histories, changes),
                   newLog)

----------------------------------------------------------------------------
(* the scan of the ignoreMin effect: getBounds sees the rendered values *)

RECURSIVE EnsureMins(_, _, _)
EnsureMins(st, renderVals, i) ==
    IF i > Len(ResourceOrder) THEN st
    ELSE LET r == ResourceOrder[i]
             min == computeMin(r, renderVals)
             v == st.values[r]
             arr == st.histories[r]
         IN IF BelowMin(v, r, renderVals)
            THEN EnsureMins(
                   Engine([st.values EXCEPT ![r] = min],
                          IF arr = << >> \/ arr[Len(arr)] # min
                          THEN [st.histories EXCEPT ![r] = Append(arr, min)]
                          ELSE st.histories,
                          Append(st.actionLog, <<Change(r, v, min, FALSE)>>)),
                   renderVals, i + 1)
            ELSE EnsureMins(st, renderVals, i + 1)

----------------------------------------------------------------------------
(* resetResources *)

\* a reset that leaves the action log alone
resetKeepsLog(st) ==
    Engine(buildInitial.initVals, buildInitial.initHist, st.actionLog)

resetResources(st) ==
    Engine(buildInitial.initVals, buildInitial.initHist, << >>)

----------------------------------------------------------------------------
(* useEconomicNoise: computeAdjustment and tick *)

\* pDown = (c0 + c1 * n / d) / 10; can `rand < pDown` hold for a rand in [0,1)
RollCanHit(c0, c1, n, d) ==
    IF d = 0 THEN n > 0
    ELSE IF d > 0 THEN c0 * d + c1 * n > 0
    ELSE c0 * d + c1 * n < 0

\* can `rand < pDown` fail for a rand in [0,1)
RollCanMiss(c0, c1, n, d) ==
    IF d = 0 THEN n <= 0
    ELSE IF d > 0 THEN c0 * d + c1 * n < 10 * d
    ELSE c0 * d + c1 * n > 10 * d

Abs(x) == IF x < 0 THEN -x ELSE x

\* the outcomes of the two Math.random() draws that are possible for a resource
Rolls(value, min, ign) ==
    LET n == IF ign THEN Abs(value - min) ELSE value - min
        c0 == IF ign THEN 5 ELSE 1
        c1 == IF ign THEN 4 ELSE 8
    IN {"skip"}
       \cup (IF RollCanHit(c0, c1, n, min) THEN {"hit"} ELSE {})
       \cup (IF RollCanMiss(c0, c1, n, min) THEN {"miss"} ELSE {})

\* an adjustment without the `if (target < min) target = min` line
computeAdjustmentUnclamped(value, min, ign, roll) ==
    IF roll = "skip" THEN <<value>>
    ELSE IF ign
    THEN LET towardsMin == IF value > min THEN -1 ELSE 1
             direction == IF roll = "hit" THEN towardsMin ELSE -towardsMin
             target == IF value + direction < 1 THEN 1 ELSE value + direction
         IN IF target = value THEN << >> ELSE <<target>>
    ELSE LET direction == IF roll = "hit" THEN -1 ELSE 1
             target == value + direction
         IN IF target = value THEN << >> ELSE <<target>>

\* computeAdjustment(res): << >> for null, <<next>> for {name, next}
computeAdjustment(value, min, ign, roll) ==
    IF roll = "skip" THEN <<value>>
    ELSE IF ign
    THEN LET towardsMin == IF value > min THEN -1 ELSE 1
             direction == IF roll = "hit" THEN towardsMin ELSE -towardsMin
             target == IF value + direction < 1 THEN 1 ELSE value + direction
         IN IF target = value THEN << >> ELSE <<target>>
    ELSE LET direction == IF roll = "hit" THEN -1 ELSE 1
             target == IF value + direction < min THEN min ELSE value + direction
         IN IF target = value THEN << >> ELSE <<target>>

\* tick(): every resource of the rendered byTier is adjusted in turn through
\* the setResourceValue the tick closed over
RECURSIVE tick(_, _, _, _, _, _)
tick(st, renderVals, boundVals, ign, rolls, i) ==
    IF i > Len(ResourceOrder) THEN st
    ELSE LET r == ResourceOrder[i]
             adj == computeAdjustment(renderVals[r], computeMin(r, renderVals),
                                      ign, rolls[r])
         IN tick(IF adj = << >> THEN st
                 ELSE setResourceValue(st, r, adj[1], boundVals, ign),
                 renderVals, boundVals, ign, rolls, i + 1)

\* the sets of resources that escape the 40% skip in one tick, at most
\* MaxMoves of them
MoverSets == {movers \in SUBSET Resources : Cardinality(movers) <= MaxMoves}

\* the rolls of one tick
TickRolls(renderVals, ign) ==
    UNION {{[r \in Resources |-> IF r \in movers THEN moves[r] ELSE "skip"]
            : moves \in {m \in [movers -> {"hit", "miss"}] :
                           \A r \in movers :
                              m[r] \in Rolls(renderVals[r],
                                             computeMin(r, renderVals), ign)}}
           : movers \in MoverSets}

----------------------------------------------------------------------------
(* Tier derivation: rawMap, tierCache, computeTier *)

\* the declared resources, in declaration order
rawResourcesOf(order, comps) ==
    [i \in 1..Len(order) |-> [name |-> order[i], components |-> comps[order[i]]]]

\* names every plain object inherits from Object.prototype: a lookup of such
\* a name in rawMap or tierCache yields a function, which is truthy
InheritedNames == {"constructor"}
InheritedProperty == 1000003

Declared(raw) == {raw[i].name : i \in 1..Len(raw)}

\* rawMap[name]: Object.fromEntries keeps the last entry of a name
rawMapHas(raw, name) == name \in Declared(raw) \cup InheritedNames

rawMapComponents(raw, name) ==
    IF name \in Declared(raw)
    THEN LET last == CHOOSE i \in 1..Len(raw) :
                        /\ raw[i].name = name
                        /\ \A j \in 1..Len(raw) : raw[j].name = name => j <= i
         IN raw[last].components
    ELSE << >>

\* tierCache[name]
cacheGet(cache, name) ==
    IF name \in DOMAIN cache THEN cache[name]
    ELSE IF name \in InheritedNames THEN InheritedProperty
    ELSE 0

Truthy(v) == v \notin {0, NotANumber}

NoError == [kind |-> "", name |-> ""]

TierStart == [cache |-> NoVals, visiting |-> {}, err |-> NoError, t |-> 0]

RECURSIVE MaxOf(_, _)
MaxOf(ts, i) ==
    IF i = Len(ts) THEN ts[i]
    ELSE LET m == MaxOf(ts, i + 1) IN IF ts[i] > m THEN ts[i] ELSE m

MathMaxFirst(ts) ==
    IF \E i \in 1..Len(ts) : ts[i] \in {NotANumber, InheritedProperty}
    THEN NotANumber
    ELSE ts[1]

\* Math.max(...compTiers): NaN as soon as one argument is not a number
MathMax(ts) ==
    IF \E i \in 1..Len(ts) : ts[i] \in {NotANumber, InheritedProperty}
    THEN NotANumber
    ELSE MaxOf(ts, 1)

PlusOne(t) == IF t = NotANumber THEN NotANumber ELSE t + 1

RECURSIVE computeTier(_, _, _)
RECURSIVE mapTiers(_, _, _, _)

\* res.components.map(c => computeTier(c)); a throw leaves the map
mapTiers(raw, comps, i, s) ==
    IF i > Len(comps) THEN [s |-> s, tiers |-> << >>]
    ELSE LET c == computeTier(raw, comps[i], s)
         IN IF c.err # NoError THEN [s |-> c, tiers |-> << >>]
            ELSE LET rest == mapTiers(raw, comps, i + 1, c)
                 IN [s |-> rest.s, tiers |-> <<c.t>> \o rest.tiers]

\* computeTier(name) on the module state s; the result is s.t, a throw is
\* s.err
computeTier(raw, name, s) ==
    IF Truthy(cacheGet(s.cache, name))
    THEN [s EXCEPT !.t = cacheGet(s.cache, name)]
    ELSE IF ~rawMapHas(raw, name)
    THEN [s EXCEPT !.err = [kind |-> "Unknown", name |-> name]]
    ELSE IF name \in s.visiting
    THEN [s EXCEPT !.err = [kind |-> "Circular", name |-> name]]
    ELSE IF rawMapComponents(raw, name) = << >>
    THEN [s EXCEPT !.cache = (name :> 1) @@ @, !.t = 1]
    ELSE LET m == mapTiers(raw, rawMapComponents(raw, name), 1,
                           [s EXCEPT !.visiting = @ \cup {name}])
         IN IF m.s.err # NoError THEN m.s
            ELSE LET t == PlusOne(MathMax(m.tiers))
                 IN [m.s EXCEPT !.visiting = @ \ {name},
                                !.cache = (name :> t) @@ @,
                                !.t = t]

\* rawResources.forEach(r => computeTier(r.name))
RECURSIVE forEachTier(_, _, _)
forEachTier(raw, i, s) ==
    IF i > Len(raw) THEN s
    ELSE LET c == computeTier(raw, raw[i].name, s)
         IN IF c.err # NoError THEN c ELSE forEachTier(raw, i + 1, c)

NotLoaded == [loaded |-> FALSE, tiers |-> NoVals, err |-> NoError]

\* the module body: the tier pass and the exported resources, whose tier is
\* tierCache[r.name]; a throw fails the import and nothing is exported
loadResources(raw) ==
    LET s == forEachTier(raw, 1, TierStart)
    IN IF s.err # NoError
       THEN [loaded |-> TRUE, tiers |-> NoVals, err |-> s.err]
       ELSE [loaded |-> TRUE,
             tiers |-> [n \in Declared(raw) |-> cacheGet(s.cache, n)],
             err |-> NoError]

----------------------------------------------------------------------------
(* State after construction, and the bookkeeping shared by all actions *)

StartTargetValue == 50

\* App: the default of noiseIntervalMs, in seconds
DefaultInterval == 5

\* currentTargetValue is kept as an integer number of 1/Scale units, which is
\* exact for up to five completions (50 * 1.1^k)
Scale == 10000

\* ContractLabels: the label pool. Only its being a finite list of distinct
\* names matters; a pool of n labels is written <<"label", 1>> ..
\* <<"label", n>>
ContractLabels(n) == {<<"label", k>> : k \in 1..n}

settings == <<contractCount, contractDifficulty, maxResources,
              rewardMinMultiplier, rewardMaxMultiplier, labelPool,
              noiseInterval>>

\* Contract: the component state before its first render (useState
\* defaults, decayCalledRef false), with no frame requested. progress is in
\* units of 1/DecayFrames; base and since are the effect's effectiveStart:
\* the progress it was computed from and the frames elapsed since.
\* listed: the contract is in the list App renders; decayCalls and
\* completeCalls count the calls of onDecay and onComplete.
NoCard ==
    [mounted |-> FALSE, listed |-> FALSE, confirming |-> FALSE,
     completed |-> FALSE, decayed |-> FALSE, progress |-> 0,
     decayCalled |-> FALSE, loop |-> FALSE, base |-> 0, since |-> 0,
     decayCalls |-> 0, completeCalls |-> 0]

\* what constants/resources.js computes once, when the module is loaded,
\* and the component state of the contract card, which the operations of the
\* hooks do not touch
\* no call of generateRandomContract is running. The field `turn` is not in
\* the source: it alternates with the iterations that change neither the
\* running total nor a quantity below QtyCap, so that they remain steps.
NoGeneration ==
    [running |-> FALSE, general |-> FALSE, specialistResource |-> {},
     selectedResources |-> << >>, currentValue |-> 0, targetValue |-> 0,
     id |-> 0, turn |-> FALSE]

statics == <<rawResources, tierCache, card, gen>>

Init ==
    /\ values = buildInitial.initVals
    /\ histories = buildInitial.initHist
    /\ actionLog = << >>
    /\ ignoreMin = FALSE
    /\ tickVals = NoVals
    /\ noiseActive = FALSE
    /\ paused = TRUE
    /\ contracts = << >>
    /\ currentTargetValue = StartTargetValue * Scale
    /\ contractCount = 3
    /\ contractDifficulty = 100
    /\ maxResources = 6
    /\ rewardMinMultiplier = 10
    /\ rewardMaxMultiplier = 14
    /\ labelPool = ContractLabels(1)
    /\ rawResources = rawResourcesOf(ResourceOrder, Components)
    /\ tierCache = loadResources(rawResources)
    /\ noiseInterval = DefaultInterval
    /\ ticked = << >>
    /\ card = NoCard
    /\ gen = NoGeneration
    /\ lastOp = [op |-> "init", name |-> "", arg |-> 0]
    /\ before = << >>
    /\ steps = 0
    /\ budget = MaxSteps

Now == Engine(values, histories, actionLog)

RECURSIVE ApplyChanges(_, _, _)
ApplyChanges(vals, changes, i) ==
    IF i > Len(changes) THEN vals
    ELSE ApplyChanges([vals EXCEPT ![changes[i].name] = changes[i].nextValue],
                      changes, i + 1)

RECURSIVE Replay(_, _, _, _)
Replay(vals, log, from, to) ==
    IF from > to THEN vals
    ELSE Replay(ApplyChanges(vals, log[from], 1), log, from + 1, to)

BeforeAfter(newLog) ==
    IF Len(newLog) <= Len(actionLog) THEN SubSeq(before, 1, Len(newLog))
    ELSE before \o [j \in 1..(Len(newLog) - Len(actionLog)) |->
                      Replay(values, newLog, Len(actionLog) + 1,
                             Len(actionLog) + j - 1)]

Record(st, op, name, arg) ==
    /\ steps < budget
    /\ steps' = steps + 1
    /\ budget' = budget
    /\ values' = st.values
    /\ histories' = st.histories
    /\ actionLog' = st.actionLog
    /\ before' = BeforeAfter(st.actionLog)
    /\ lastOp' = [op |-> op, name |-> name, arg |-> arg]

\* an operation that runs no noise tick
Commit(st, op, name, arg) ==
    /\ Record(st, op, name, arg)
    /\ ticked' = << >>

\* an operation in which tick() ran once, with these rolls
CommitTick(st, op, name, arg, rolls) ==
    /\ Record(st, op, name, arg)
    /\ ticked' = <<rolls>>

----------------------------------------------------------------------------
(* Operations of useResources *)

InputValues == {20}

SetInputs(prev) == InputValues \cup {prev - 1, prev + 1}

\* a user edit: r.setValue(v) of the rendered byTier
SetResourceValue ==
    /\ \E name \in Resources :
         \E proposed \in SetInputs(values[name]) :
            Commit(setResourceValue(Now, name, proposed, values, ignoreMin),
                   "set", name, proposed)
    /\ UNCHANGED <<ignoreMin, tickVals, noiseActive, paused, contracts,
                   currentTargetValue, settings, statics>>

\* ResourceBox: clamp(v), the minimum being the one of the render
clamp(v, name, renderVals, ign) ==
    IF ign THEN v
    ELSE IF computeMin(name, renderVals) > v
         THEN computeMin(name, renderVals)
         ELSE v

\* ResourceBox: dec, setValue(prev => clamp(prev - step)) with step 1, of
\* the box of one of the names
DecOf(names) ==
    /\ \E name \in names :
         LET proposed == clamp(values[name] - 1, name, values, ignoreMin)
         IN Commit(setResourceValue(Now, name, proposed, values, ignoreMin),
                   "set", name, proposed)
    /\ UNCHANGED <<ignoreMin, tickVals, noiseActive, paused, contracts,
                   currentTargetValue, settings, statics>>

DecResource == DecOf(Resources)

\* the boxes of the raw materials
DecRawMaterial == DecOf({r \in Resources : Components[r] = << >>})

UndoLastChange ==
    /\ Commit(undoLastChange(Now), "undo", "", 0)
    /\ UNCHANGED <<ignoreMin, tickVals, noiseActive, paused, contracts,
                   currentTargetValue, settings, statics>>

\* the arguments of a call that the hook is expected to ignore: an unknown
\* name with a usable value, or a declared name with a value that is not a
\* finite number
NonNumbers == {NotANumber, EmptyString}

Infinities == {Infinity, -Infinity}

\* setResourceValue(name, value) called directly with such arguments
SetMalformed ==
    /\ \/ \E proposed \in InputValues \cup Infinities :
            Commit(setResourceValue(Now, UnknownName, proposed, values,
                                    ignoreMin),
                   "setMalformed", UnknownName, proposed)
       \/ \E name \in Resources \cup {UnknownName} :
            \E proposed \in NonNumbers :
               Commit(setResourceValue(Now, name, proposed, values, ignoreMin),
                      "setMalformed", name, proposed)
       \/ \E name \in Resources :
            \E proposed \in Infinities :
               Commit(setResourceValue(Now, name, proposed, values, ignoreMin),
                      "setMalformed", name, proposed)
    /\ UNCHANGED <<ignoreMin, tickVals, noiseActive, paused, contracts,
                   currentTargetValue, settings, statics>>

NoiseRunsWhilePaused == noiseActive

NoiseRuns == noiseActive /\ ~paused

\* toggleIgnoreMin: the render with the new flag re-creates the tick (which
\* re-captures setResourceValue), runs the scan effect and then the interval
\* effect with its immediate tick
ToggleIgnoreMin ==
    /\ ignoreMin' = ~ignoreMin
    /\ tickVals' = values
    /\ LET scanned == IF ignoreMin' THEN Now ELSE EnsureMins(Now, values, 1)
       IN IF NoiseRuns
          THEN \E rolls \in TickRolls(values, ignoreMin') :
                 CommitTick(tick(scanned, values, values, ignoreMin', rolls,
                                 1),
                            "toggleIgnoreMin", "", 0, rolls)
          ELSE Commit(scanned, "toggleIgnoreMin", "", 0)
    /\ UNCHANGED <<noiseActive, paused, contracts, currentTargetValue,
                   settings, statics>>

----------------------------------------------------------------------------
(* Operations of useEconomicNoise *)

\* the interval fires
NoiseTick ==
    /\ NoiseRuns
    /\ \E rolls \in TickRolls(values, ignoreMin) :
         CommitTick(tick(Now, values, tickVals, ignoreMin, rolls, 1), "tick",
                    "", values, rolls)
    /\ UNCHANGED <<ignoreMin, tickVals, noiseActive, paused, contracts,
                   currentTargetValue, settings, statics>>

\* toggle: the interval effect runs again and ticks at once when switched on
ToggleNoise ==
    /\ noiseActive' = ~noiseActive
    /\ IF ~noiseActive /\ ~paused
       THEN \E rolls \in TickRolls(values, ignoreMin) :
              CommitTick(tick(Now, values, tickVals, ignoreMin, rolls, 1),
                         "toggleNoise", "", 0, rolls)
       ELSE Commit(Now, "toggleNoise", "", 0)
    /\ UNCHANGED <<ignoreMin, tickVals, paused, contracts, currentTargetValue,
                   settings, statics>>

\* the paused flag of the useResources config changes: the interval effect
\* runs again and ticks at once when noise is on and the pause ends
SetPaused ==
    /\ paused' = ~paused
    /\ IF noiseActive /\ paused
       THEN \E rolls \in TickRolls(values, ignoreMin) :
              CommitTick(tick(Now, values, tickVals, ignoreMin, rolls, 1),
                         "setPaused", "", 0, rolls)
       ELSE Commit(Now, "setPaused", "", 0)
    /\ UNCHANGED <<ignoreMin, tickVals, noiseActive, contracts,
                   currentTargetValue, settings, statics>>

\* SettingsPanel: the stepper buttons of the noise interval (1 .. 3600 s);
\* the model stays within IntervalSteps of the default. noiseInterval is a
\* dependency of the interval effect, which runs again: it replaces the
\* timer and, when noise is running, calls tick() at once
SetNoiseInterval ==
    /\ \E next \in {noiseInterval - 1, noiseInterval + 1} :
         /\ next >= 1
         /\ next <= 3600
         /\ next <= DefaultInterval + IntervalSteps
         /\ next >= DefaultInterval - IntervalSteps
         /\ noiseInterval' = next
    /\ IF NoiseRuns
       THEN \E rolls \in TickRolls(values, ignoreMin) :
              CommitTick(tick(Now, values, tickVals, ignoreMin, rolls, 1),
                         "setNoiseInterval", "", noiseInterval, rolls)
       ELSE Commit(Now, "setNoiseInterval", "", noiseInterval)
    /\ UNCHANGED <<ignoreMin, tickVals, noiseActive, paused, contracts,
                   currentTargetValue, contractCount, contractDifficulty,
                   maxResources, rewardMinMultiplier, rewardMaxMultiplier,
                   labelPool, statics>>

----------------------------------------------------------------------------
(* useContracts: generateRandomContract and addNewContract *)

MaxId == 2
MaxCount == 2
DifficultySteps == 1

Names(selectedResources) ==
    {selectedResources[i].name : i \in 1..Len(selectedResources)}

\* a bundle that notes a resource once however often it is picked
AddUnitOnce(selectedResources, resName) ==
    IF resName \in Names(selectedResources)
    THEN selectedResources
    ELSE Append(selectedResources, [name |-> resName, qty |-> 1])

\* selectedResources[resName] = (selectedResources[resName] || 0) + 1, the
\* object's keys kept in insertion order
AddUnit(selectedResources, resName) ==
    IF resName \in Names(selectedResources)
    THEN [i \in 1..Len(selectedResources) |->
            IF selectedResources[i].name = resName
            THEN [name |-> resName, qty |-> selectedResources[i].qty + 1]
            ELSE selectedResources[i]]
    ELSE Append(selectedResources, [name |-> resName, qty |-> 1])

\* scaledTarget = targetValue * contractDifficulty, compared without division
BelowTarget(currentValue, targetValue, difficulty) ==
    currentValue * Scale * 100 < targetValue * difficulty

OverTarget(currentValue, targetValue, difficulty) ==
    currentValue * Scale * 100 > targetValue * difficulty

\* the bundles the specialist loop can end with; frontier holds the partial
\* bundles some run of the while loop is at, ended those a run returned
RECURSIVE SpecialistLoop(_, _, _, _, _, _)
SpecialistLoop(specialistResource, frontier, ended, vals, targetValue, difficulty) ==
    IF frontier = {} THEN ended
    ELSE LET running == {b \in frontier :
                            BelowTarget(b.value, targetValue, difficulty)}
             picks == running \X specialistResource
             breaks == {pk \in picks :
                          OverTarget(vals[pk[2]] + pk[1].value, targetValue,
                                     difficulty)}
         IN SpecialistLoop(specialistResource,
                {[resources |-> AddUnit(pk[1].resources, pk[2]),
                  value |-> pk[1].value + vals[pk[2]]] : pk \in picks \ breaks},
                ended \cup (frontier \ running) \cup {pk[1] : pk \in breaks},
                vals, targetValue, difficulty)

\* variant: a unit is eligible whatever it does to the running total
resourceEntriesAnyValue(b, vals, targetValue, difficulty, maxRes) ==
    {name \in DOMAIN vals :
        (Cardinality(Names(b.resources)) < maxRes
         \/ name \in Names(b.resources))}

\* variant: a new resource type is eligible whatever the bundle holds
resourceEntriesUncapped(b, vals, targetValue, difficulty, maxRes) ==
    {name \in DOMAIN vals :
        ~OverTarget(vals[name] + b.value, targetValue, difficulty)}

\* the names the general loop may pick from for a partial bundle
resourceEntries(b, vals, targetValue, difficulty, maxRes) ==
    {name \in DOMAIN vals :
        /\ ~OverTarget(vals[name] + b.value, targetValue, difficulty)
        /\ (Cardinality(Names(b.resources)) < maxRes
            \/ name \in Names(b.resources))}

\* the bundles the general loop can end with
RECURSIVE GeneralLoop(_, _, _, _, _, _)
GeneralLoop(frontier, ended, vals, targetValue, difficulty, maxRes) ==
    IF frontier = {} THEN ended
    ELSE LET running ==
                {b \in frontier :
                    /\ BelowTarget(b.value, targetValue, difficulty)
                    /\ resourceEntries(b, vals, targetValue, difficulty,
                                       maxRes) # {}}
         IN GeneralLoop(
                UNION {{[resources |-> AddUnit(b.resources, name),
                         value |-> b.value + vals[name]]
                        : name \in resourceEntries(b, vals, targetValue,
                                                   difficulty, maxRes)}
                       : b \in running},
                ended \cup (frontier \ running),
                vals, targetValue, difficulty, maxRes)

Min2(a, b) == IF a < b THEN a ELSE b

\* the labels generateRandomContract can give the contract with this id when
\* `existing` is the contract list of the render: a pool label that no
\* existing contract carries, or `Contract ${id + 1}` when there is none
labelChoices(pool, existing, id) ==
    LET existingLabels == {existing[i].label : i \in 1..Len(existing)}
        availableLabels == pool \ existingLabels
    IN IF availableLabels = {} THEN {<<"Contract", id + 1>>}
       ELSE availableLabels

\* a range that takes the smaller and the larger of the two multipliers
rewardRangeSwapped(rmin, rmax) ==
    [min |-> IF 1 > Min2(rmin, rmax) THEN 1 ELSE Min2(rmin, rmax),
     max |-> IF rmin > rmax THEN rmin ELSE rmax]

\* minMult and maxMult, in tenths
rewardRange(rmin, rmax) ==
    LET minMult == IF 1 > Min2(rmin, rmax) THEN 1 ELSE Min2(rmin, rmax)
    IN [min |-> minMult, max |-> IF minMult > rmax THEN minMult ELSE rmax]

\* Math.floor(v * m) is evaluated in IEEE-754 doubles; for 0 <= v <= 300 and
\* a multiplier of m tenths, 0.1 <= m / 10 <= 6, the pairs below are those
\* where the double result is one below the exact floor
RewardOff ==
    {<<25, 46>>, <<30, 41>>, <<45, 14>>, <<45, 28>>, <<45, 46>>,
     <<45, 56>>, <<50, 23>>, <<50, 41>>, <<50, 46>>, <<50, 51>>,
     <<55, 46>>, <<60, 41>>, <<85, 14>>, <<85, 28>>, <<85, 46>>,
     <<85, 56>>, <<90, 7>>, <<90, 14>>, <<90, 23>>, <<90, 28>>, <<90, 41>>,
     <<90, 46>>, <<90, 51>>, <<90, 56>>, <<95, 46>>, <<100, 23>>,
     <<100, 41>>, <<100, 46>>, <<100, 51>>, <<105, 46>>, <<110, 23>>,
     <<110, 41>>, <<110, 46>>, <<120, 41>>, <<165, 14>>, <<165, 28>>,
     <<165, 46>>, <<165, 56>>, <<170, 7>>, <<170, 14>>, <<170, 23>>,
     <<170, 28>>, <<170, 41>>, <<170, 46>>, <<170, 51>>, <<170, 56>>,
     <<175, 14>>, <<175, 28>>, <<175, 46>>, <<175, 56>>, <<180, 7>>,
     <<180, 14>>, <<180, 23>>, <<180, 28>>, <<180, 41>>, <<180, 46>>,
     <<180, 51>>, <<180, 56>>, <<185, 46>>, <<190, 23>>, <<190, 41>>,
     <<190, 46>>, <<190, 51>>, <<195, 46>>, <<200, 23>>, <<200, 41>>,
     <<200, 46>>, <<200, 51>>, <<205, 46>>, <<210, 23>>, <<210, 41>>,
     <<210, 46>>, <<215, 46>>, <<220, 23>>, <<220, 41>>, <<220, 46>>,
     <<230, 41>>, <<240, 41>>}

RewardFloor(v, m) ==
    ((v * m) \div 10) - (IF <<v, m>> \in RewardOff THEN 1 ELSE 0)

\* Math.floor(currentValue * (minMult + Math.random() * (maxMult - minMult)));
\* a draw close to 1 rounds the multiplier to maxMult
rewardChoices(currentValue, range) ==
    RewardFloor(currentValue, range.min)..RewardFloor(currentValue, range.max)

\* the selectedResources and currentValue the specialist branch can end
\* with: shuffled.slice(0, Math.min(numSpecialists, maxResources)) is any
\* set of that many names
specialistChoices(targetValue, vals, difficulty, maxRes) ==
    LET specialists == {sp \in SUBSET DOMAIN vals :
                          \E numSpecialists \in {1, 2} :
                             Cardinality(sp) =
                                Min2(Min2(numSpecialists, maxRes),
                                     Cardinality(DOMAIN vals))}
        empty == {[resources |-> << >>, value |-> 0]}
    IN UNION {SpecialistLoop(sp, empty, {}, vals, targetValue, difficulty)
              : sp \in specialists}

\* the selectedResources and currentValue that generateRandomContract can
\* end its loops with
bundleChoices(targetValue, vals, difficulty, maxRes) ==
    GeneralLoop({[resources |-> << >>, value |-> 0]}, {}, vals, targetValue,
                difficulty, maxRes)
    \cup specialistChoices(targetValue, vals, difficulty, maxRes)

\* the rest of what the memoised generateRandomContract closes over: the
\* contract list of the render, the two reward multipliers and the label pool
Closure ==
    [contracts |-> contracts, rewardMinMultiplier |-> rewardMinMultiplier,
     rewardMaxMultiplier |-> rewardMaxMultiplier, labels |-> labelPool]

\* the contracts generateRandomContract(targetValue, id) can return with the
\* bundle b, and those it can return at all. Two
\* fields are not in the source: `added` numbers the batches in the order
\* they are added, one more than the newest batch of the render's list, and
\* `target` is the targetValue argument of the call.
contractOf(b, targetValue, id, difficulty, maxRes, hook) ==
    LET range == rewardRange(hook.rewardMinMultiplier,
                             hook.rewardMaxMultiplier)
        stamps == {hook.contracts[i].added : i \in 1..Len(hook.contracts)}
        added == IF stamps = {} THEN 1
                 ELSE 1 + CHOOSE n \in stamps : \A k \in stamps : k <= n
    IN {[id |-> id, resources |-> b.resources, value |-> b.value,
         reward |-> reward, label |-> label,
         difficulty |-> difficulty, rewardRange |-> range,
         maxResources |-> maxRes, added |-> added,
         target |-> targetValue] :
           reward \in rewardChoices(b.value, range),
           label \in labelChoices(hook.labels, hook.contracts, id)}

generateRandomContract(targetValue, id, vals, difficulty, maxRes, hook) ==
    UNION {contractOf(b, targetValue, id, difficulty, maxRes, hook) :
           b \in bundleChoices(targetValue, vals, difficulty, maxRes)}

\* the batches addNewContract(targetValue, repeat) can prepend; the ids
\* Date.now() + Math.floor(Math.random() * 1000) + i are drawn from 1..MaxId
addNewContract(targetValue, repeat, vals, difficulty, maxRes, hook) ==
    LET one == UNION {generateRandomContract(targetValue, id, vals, difficulty,
                                             maxRes, hook) : id \in 1..MaxId}
    IN IF repeat <= 0 THEN {<< >>} ELSE [1..repeat -> one]

----------------------------------------------------------------------------
(* useContracts: completeContract and onContractDecay *)

\* Math.floor(v * (1 - 0.05 * q)) and Math.ceil(v * (1 + 0.05 * q)) are
\* evaluated in IEEE-754 doubles; for 0 <= v <= 120 and 1 <= q <= 20 the
\* pairs below are those where the double result is one below the exact
\* floor (FloorOff) or one above the exact ceiling (CeilOff)
FloorOff ==
    {<<5, 12>>, <<5, 16>>, <<10, 12>>, <<10, 14>>, <<10, 16>>, <<10, 18>>,
     <<15, 12>>, <<15, 16>>, <<20, 7>>, <<20, 12>>, <<20, 14>>, <<20, 16>>,
     <<20, 17>>, <<20, 18>>, <<20, 19>>, <<25, 12>>, <<25, 16>>,
     <<30, 12>>, <<30, 14>>, <<30, 16>>, <<30, 18>>, <<35, 12>>,
     <<35, 16>>, <<40, 7>>, <<40, 12>>, <<40, 14>>, <<40, 16>>, <<40, 17>>,
     <<40, 18>>, <<40, 19>>, <<45, 12>>, <<45, 16>>, <<50, 12>>,
     <<50, 14>>, <<50, 16>>, <<50, 18>>, <<55, 12>>, <<55, 16>>, <<60, 7>>,
     <<60, 11>>, <<60, 12>>, <<60, 14>>, <<60, 16>>, <<60, 17>>,
     <<60, 18>>, <<60, 19>>, <<65, 12>>, <<65, 16>>, <<70, 12>>,
     <<70, 14>>, <<70, 16>>, <<70, 18>>, <<75, 12>>, <<75, 16>>, <<80, 7>>,
     <<80, 12>>, <<80, 14>>, <<80, 16>>, <<80, 17>>, <<80, 18>>,
     <<80, 19>>, <<85, 12>>, <<85, 16>>, <<90, 6>>, <<90, 12>>, <<90, 14>>,
     <<90, 16>>, <<90, 18>>, <<95, 12>>, <<95, 16>>, <<100, 7>>,
     <<100, 11>>, <<100, 12>>, <<100, 14>>, <<100, 16>>, <<100, 17>>,
     <<100, 18>>, <<100, 19>>, <<105, 12>>, <<105, 16>>, <<110, 12>>,
     <<110, 14>>, <<110, 16>>, <<110, 18>>, <<115, 12>>, <<115, 16>>,
     <<120, 7>>, <<120, 11>>, <<120, 12>>, <<120, 14>>, <<120, 16>>,
     <<120, 17>>, <<120, 18>>, <<120, 19>>}

CeilOff ==
    {<<30, 14>>, <<50, 2>>, <<50, 14>>, <<60, 14>>, <<60, 19>>, <<70, 14>>,
     <<90, 2>>, <<90, 14>>, <<100, 2>>, <<100, 14>>, <<100, 19>>,
     <<110, 2>>, <<110, 14>>, <<120, 14>>, <<120, 19>>}

Max2(a, b) == IF a > b THEN a ELSE b

CompletionValue(v, qty) ==
    Max2(2, ((v * (20 - qty)) \div 20)
            - (IF <<v, qty>> \in FloorOff THEN 1 ELSE 0))

\* a decay that rounds down
DecayValueFloor(v, qty) == (v * (20 + qty)) \div 20

DecayValue(v, qty) ==
    (-((-(v * (20 + qty))) \div 20))
    + (IF <<v, qty>> \in CeilOff THEN 1 ELSE 0)

\* contracts.find(c => c.id === contractId): << >> when there is none
FindContract(cs, contractId) ==
    LET hits == {i \in 1..Len(cs) : cs[i].id = contractId}
    IN IF hits = {} THEN << >>
       ELSE <<cs[CHOOSE i \in hits : \A j \in hits : i <= j]>>

RECURSIVE FilterOut(_, _)
FilterOut(cs, contractId) ==
    IF cs = << >> THEN << >>
    ELSE IF Head(cs).id = contractId THEN FilterOut(Tail(cs), contractId)
    ELSE <<Head(cs)>> \o FilterOut(Tail(cs), contractId)

\* Object.entries(contract.resources).forEach(([name, qty]) =>
\*     setResourceValue(name, <formula>(values[name], qty)))
\* a completion that writes its targets past the minimum clamp
RECURSIVE ApplyCompletionDirect(_, _, _, _, _)
ApplyCompletionDirect(st, resources, i, renderVals, ign) ==
    IF i > Len(resources) THEN st
    ELSE ApplyCompletionDirect(
            setResourceValue(st, resources[i].name,
                CompletionValue(renderVals[resources[i].name], resources[i].qty),
                renderVals, TRUE),
            resources, i + 1, renderVals, ign)

RECURSIVE ApplyCompletion(_, _, _, _, _)
ApplyCompletion(st, resources, i, renderVals, ign) ==
    IF i > Len(resources) THEN st
    ELSE ApplyCompletion(
            setResourceValue(st, resources[i].name,
                CompletionValue(renderVals[resources[i].name], resources[i].qty),
                renderVals, ign),
            resources, i + 1, renderVals, ign)

RECURSIVE ApplyDecay(_, _, _, _, _)
ApplyDecay(st, resources, i, renderVals, ign) ==
    IF i > Len(resources) THEN st
    ELSE ApplyDecay(
            setResourceValue(st, resources[i].name,
                DecayValue(renderVals[resources[i].name], resources[i].qty),
                renderVals, ign),
            resources, i + 1, renderVals, ign)

\* a maintenance effect that does not look at the pause
MaintenanceDueWhilePaused == Len(contracts) # contractCount

\* the maintenance effect has work to do after the current render
MaintenanceDue == ~paused /\ Len(contracts) # contractCount

\* a maintenance effect that generates shortfalls and never trims
MaintainContractsNoTrim ==
    /\ MaintenanceDue
    /\ Len(contracts) < contractCount
    /\ \E batch \in addNewContract(currentTargetValue,
                         contractCount - Len(contracts), values,
                         contractDifficulty, maxResources, Closure) :
            contracts' = batch \o contracts
    /\ Commit(Now, "maintain", "", 0)
    /\ UNCHANGED <<ignoreMin, tickVals, noiseActive, paused,
                   currentTargetValue, settings, statics>>

\* useEffect (maintain desired contract count)
MaintainContracts ==
    /\ MaintenanceDue
    /\ IF Len(contracts) < contractCount
       THEN \E batch \in addNewContract(currentTargetValue,
                            contractCount - Len(contracts), values,
                            contractDifficulty, maxResources, Closure) :
               contracts' = batch \o contracts
       ELSE contracts' = SubSeq(contracts, 1, contractCount)
    /\ Commit(Now, "maintain", "", 0)
    /\ UNCHANGED <<ignoreMin, tickVals, noiseActive, paused,
                   currentTargetValue, settings, statics>>

\* App: onTogglePause. The interval effect of the noise, the maintenance
\* effect and the seed effect all run after the render with the new flag.
TogglePause ==
    /\ ~MaintenanceDue
    /\ paused' = ~paused
    /\ IF noiseActive /\ paused
       THEN \E rolls \in TickRolls(values, ignoreMin) :
              CommitTick(tick(Now, values, tickVals, ignoreMin, rolls, 1),
                         "togglePause", "", 0, rolls)
       ELSE Commit(Now, "togglePause", "", 0)
    /\ IF paused
       THEN \E maintained \in
                 (IF Len(contracts) < contractCount
                  THEN {batch \o contracts :
                          batch \in addNewContract(currentTargetValue,
                                       contractCount - Len(contracts), values,
                                       contractDifficulty, maxResources,
                                       Closure)}
                  ELSE {SubSeq(contracts, 1, contractCount)}) :
              \E seed \in
                 (IF Len(contracts) = 0 /\ contractCount # 0
                  THEN addNewContract(StartTargetValue * Scale, contractCount,
                                      values, contractDifficulty,
                                      maxResources, Closure)
                  ELSE {<< >>}) :
                 contracts' = seed \o maintained
       ELSE contracts' = contracts
    /\ UNCHANGED <<ignoreMin, tickVals, noiseActive, currentTargetValue,
                   settings, statics>>

\* generateRandomContract, one loop iteration at a time ---------------------

\* selectedResources[resName]++ with the recorded quantity held at QtyCap
AddUnitCapped(selectedResources, resName) ==
    LET added == AddUnit(selectedResources, resName)
    IN [i \in 1..Len(added) |->
          [name |-> added[i].name, qty |-> Min2(added[i].qty, QtyCap)]]

\* the names an iteration of the running loop can draw and add
LoopCanAdd ==
    IF gen.general
    THEN resourceEntries([resources |-> gen.selectedResources,
                          value |-> gen.currentValue],
                         values, gen.targetValue, contractDifficulty,
                         maxResources)
    ELSE {name \in gen.specialistResource :
            ~OverTarget(values[name] + gen.currentValue, gen.targetValue,
                        contractDifficulty)}

\* the running loop can be left: its condition fails, the general loop finds
\* no entry, or the specialist loop draws a name that makes it break
LoopCanEnd ==
    \/ ~BelowTarget(gen.currentValue, gen.targetValue, contractDifficulty)
    \/ (gen.general /\ LoopCanAdd = {})
    \/ (~gen.general /\ LoopCanAdd # gen.specialistResource)

\* App: onTogglePause of a paused session that is short of contracts; the
\* maintenance effect enters generateRandomContract(currentTargetValue, id)
\* and draws the branch and the specialist names
BeginGenerate ==
    /\ paused
    /\ ~noiseActive
    /\ ~gen.running
    /\ Len(contracts) < contractCount
    /\ paused' = FALSE
    /\ \E id \in 1..MaxId :
         \E sp \in {{}} \cup
                   {sp \in SUBSET DOMAIN values :
                      \E numSpecialists \in {1, 2} :
                         Cardinality(sp) =
                            Min2(Min2(numSpecialists, maxResources),
                                 Cardinality(DOMAIN values))} :
            gen' = [running |-> TRUE, general |-> sp = {},
                    specialistResource |-> sp, selectedResources |-> << >>,
                    currentValue |-> 0, targetValue |-> currentTargetValue,
                    id |-> id, turn |-> FALSE]
    /\ Commit(Now, "togglePause", "", 0)
    /\ UNCHANGED <<ignoreMin, tickVals, noiseActive, contracts,
                   currentTargetValue, settings, rawResources, tierCache,
                   card>>

\* one iteration of the while loop that adds a unit of resName
LoopAdd(resName) ==
    /\ gen.running
    /\ BelowTarget(gen.currentValue, gen.targetValue, contractDifficulty)
    /\ resName \in LoopCanAdd
    /\ gen' = [gen EXCEPT
                 !.selectedResources = AddUnitCapped(@, resName),
                 !.currentValue = @ + values[resName],
                 !.turn = IF /\ values[resName] = 0
                             /\ AddUnitCapped(gen.selectedResources, resName)
                                   = gen.selectedResources
                          THEN ~@ ELSE @]
    /\ UNCHANGED <<values, histories, actionLog, ignoreMin, tickVals,
                   noiseActive, paused, contracts, currentTargetValue,
                   settings, rawResources, tierCache, card, ticked, lastOp,
                   before, steps, budget>>

\* the loop is left and generateRandomContract returns the contract, which
\* addNewContract prepends
LoopEnd ==
    /\ gen.running
    /\ LoopCanEnd
    /\ \E contract \in contractOf([resources |-> gen.selectedResources,
                                   value |-> gen.currentValue],
                                  gen.targetValue, gen.id, contractDifficulty,
                                  maxResources, Closure) :
          contracts' = <<contract>> \o contracts
    /\ gen' = NoGeneration
    /\ UNCHANGED <<values, histories, actionLog, ignoreMin, tickVals,
                   noiseActive, paused, currentTargetValue,
                   settings, rawResources, tierCache, card, ticked, lastOp,
                   before, steps, budget>>

\* Contract: onComplete of a rendered contract card
CompleteContract ==
    /\ ~MaintenanceDue
    /\ \E i \in 1..Len(contracts) :
         LET contractId == contracts[i].id
             contract == FindContract(contracts, contractId)[1]
         IN /\ contracts' = FilterOut(contracts, contractId)
            /\ currentTargetValue' = (currentTargetValue * 11) \div 10
            /\ Commit(ApplyCompletion(Now, contract.resources, 1, values, ignoreMin),
                      "complete", "", contract)
    /\ UNCHANGED <<ignoreMin, tickVals, noiseActive, paused, settings,
                   statics>>

\* Contract: the decay timer of the last rendered contract card runs out
ContractDecay ==
    /\ ~MaintenanceDue
    /\ ~paused
    /\ contracts # << >>
    /\ LET contractId == contracts[Len(contracts)].id
           contract == FindContract(contracts, contractId)[1]
       IN /\ contracts' = FilterOut(contracts, contractId)
          /\ Commit(ApplyDecay(Now, contract.resources, 1, values, ignoreMin),
                    "decay", "", contract)
    /\ UNCHANGED <<ignoreMin, tickVals, noiseActive, paused, currentTargetValue,
                   settings, statics>>

\* a reset that prepends the new batch to the list it was called with
resetContractsKeepsOld(isPaused, count, vals, difficulty, maxRes, hook) ==
    IF ~isPaused /\ count # 0
    THEN {batch \o hook.contracts :
            batch \in addNewContract(StartTargetValue * Scale, count, vals,
                                     difficulty, maxRes, hook)}
    ELSE {hook.contracts}

\* the contract lists reset() of useContracts can leave: setContracts([])
\* and then, if not paused, a batch prepended to the emptied list
resetContracts(isPaused, count, vals, difficulty, maxRes, hook) ==
    IF ~isPaused /\ count # 0
    THEN addNewContract(StartTargetValue * Scale, count, vals, difficulty,
                        maxRes, hook)
    ELSE {<< >>}

\* App: the resetResources prop of the settings panel,
\* () => { resetResources(); resetContracts(); }
ResetResources ==
    /\ ~MaintenanceDue
    /\ Commit(resetResources(Now), "reset", "", Len(actionLog))
    /\ contracts' \in resetContracts(paused, contractCount, values,
                                     contractDifficulty, maxResources, Closure)
    /\ currentTargetValue' = StartTargetValue * Scale
    /\ UNCHANGED <<ignoreMin, tickVals, noiseActive, paused, settings,
                   statics>>

\* completeContract(contractId) with an id that no contract of the list
\* has: find() returns undefined, filter() keeps the list, and the
\* escalator is raised before `if (contract)` is reached
CompleteRemoved ==
    /\ ~MaintenanceDue
    /\ \E contractId \in 0..MaxId :
         /\ FindContract(contracts, contractId) = << >>
         /\ contracts' = FilterOut(contracts, contractId)
         /\ currentTargetValue' = (currentTargetValue * 11) \div 10
         /\ Commit(Now, "completeRemoved", "", contractId)
    /\ UNCHANGED <<ignoreMin, tickVals, noiseActive, paused, settings,
                   statics>>

\* onContractDecay(contractId) with an id that no contract of the list has
DecayRemoved ==
    /\ ~MaintenanceDue
    /\ \E contractId \in 0..MaxId :
         /\ FindContract(contracts, contractId) = << >>
         /\ contracts' = FilterOut(contracts, contractId)
         /\ Commit(Now, "decayRemoved", "", contractId)
    /\ UNCHANGED <<ignoreMin, tickVals, noiseActive, paused,
                   currentTargetValue, settings, statics>>

\* SettingsPanel: the count stepper buttons and the count input, which keep
\* the count within 1..12; the model stops at MaxCount
SetContractCount ==
    /\ ~MaintenanceDue
    /\ \E next \in {contractCount - 1, contractCount + 1} :
         /\ next >= 1
         /\ next <= Min2(12, MaxCount)
         /\ contractCount' = next
    /\ Commit(Now, "setContractCount", "", contractCount)
    /\ UNCHANGED <<ignoreMin, tickVals, noiseActive, paused, contracts,
                   currentTargetValue, contractDifficulty, maxResources,
                   rewardMinMultiplier, rewardMaxMultiplier, labelPool,
                   noiseInterval, statics>>

\* SettingsPanel: the difficulty stepper buttons (0.5 .. 5 in steps of 0.1);
\* the model stops DifficultySteps above 0.5. The seed effect re-runs and
\* finds either the pause or a list the maintenance effect has filled.
SetContractDifficulty ==
    /\ ~MaintenanceDue
    /\ \E next \in {contractDifficulty - 10, contractDifficulty + 10} :
         /\ next >= 50
         /\ next <= Min2(500, 50 + 10 * DifficultySteps)
         /\ contractDifficulty' = next
    /\ Commit(Now, "setContractDifficulty", "", contractDifficulty)
    /\ UNCHANGED <<ignoreMin, tickVals, noiseActive, paused, contracts,
                   currentTargetValue, contractCount, maxResources,
                   rewardMinMultiplier, rewardMaxMultiplier, labelPool,
                   noiseInterval, statics>>

----------------------------------------------------------------------------
(* Contract: the card of the decaying contract (decay = true) *)

\* the decay effect runs (again): the cleanup cancels the requested frame,
\* then, unless paused, completed or decayed, effectiveStart is computed
\* from the rendered progress and a frame is requested
decayEffect(c, isPaused) ==
    IF isPaused THEN [c EXCEPT !.loop = FALSE]
    ELSE IF c.completed \/ c.decayed THEN [c EXCEPT !.loop = FALSE]
    ELSE [c EXCEPT !.loop = TRUE, !.base = c.progress, !.since = 0]

\* loop(now), one frame later
CardFrame ==
    /\ card.mounted
    /\ card.loop
    /\ LET elapsed == card.base + card.since + 1
           p == IF elapsed > DecayFrames THEN DecayFrames ELSE elapsed
       IN IF p >= DecayFrames
          THEN IF ~card.decayCalled
               THEN card' = [card EXCEPT !.progress = p, !.since = @ + 1,
                                         !.decayCalled = TRUE,
                                         !.decayed = TRUE,
                                         !.decayCalls = @ + 1,
                                         !.listed = FALSE,
                                         !.loop = FALSE]
               ELSE card' = [card EXCEPT !.progress = p, !.since = @ + 1,
                                         !.loop = FALSE]
          ELSE card' = [card EXCEPT !.progress = p, !.since = @ + 1]
    /\ Commit(Now, "frame", "", 0)
    /\ UNCHANGED <<ignoreMin, tickVals, noiseActive, paused, contracts,
                   currentTargetValue, settings, rawResources, tierCache,
                   gen>>

\* App: the pause button. A card that is still in the list is rendered with
\* the new flag and its effect runs again; a card that AnimatePresence keeps
\* after its contract left the list keeps the props of its last render.
CardSetPaused ==
    /\ card.mounted
    /\ paused' = ~paused
    /\ card' = IF card.listed THEN decayEffect(card, paused') ELSE card
    /\ Commit(Now, "cardPause", "", 0)
    /\ UNCHANGED <<ignoreMin, tickVals, noiseActive, contracts,
                   currentTargetValue, settings, rawResources, tierCache,
                   gen>>

\* App renders again for any other reason: onDecay is a new arrow function,
\* so the effect of a listed card runs again
CardRerender ==
    /\ card.mounted
    /\ card.listed
    /\ card' = decayEffect(card, paused)
    /\ Commit(Now, "rerender", "", 0)
    /\ UNCHANGED <<ignoreMin, tickVals, noiseActive, paused, contracts,
                   currentTargetValue, settings, rawResources, tierCache,
                   gen>>

\* handleActivate: a click on the card, Enter or Space
CardActivate ==
    /\ card.mounted
    /\ card.listed
    /\ card' = IF ~card.confirming
               THEN [card EXCEPT !.confirming = TRUE]
               ELSE decayEffect([card EXCEPT !.completeCalls = @ + 1,
                                             !.listed = FALSE,
                                             !.confirming = FALSE,
                                             !.completed = TRUE],
                                paused)
    /\ Commit(Now, "activate", "", 0)
    /\ UNCHANGED <<ignoreMin, tickVals, noiseActive, paused, contracts,
                   currentTargetValue, settings, rawResources, tierCache,
                   gen>>

\* the Yes button of the confirm bar: onComplete(id); setConfirming(false)
CardConfirmYes ==
    /\ card.mounted
    /\ card.listed
    /\ card.confirming
    /\ card' = [card EXCEPT !.completeCalls = @ + 1, !.listed = FALSE,
                            !.confirming = FALSE]
    /\ Commit(Now, "confirmYes", "", 0)
    /\ UNCHANGED <<ignoreMin, tickVals, noiseActive, paused, contracts,
                   currentTargetValue, settings, rawResources, tierCache,
                   gen>>

\* the No button of the confirm bar, or Escape
CardCancel ==
    /\ card.mounted
    /\ card.listed
    /\ card.confirming
    /\ card' = [card EXCEPT !.confirming = FALSE]
    /\ Commit(Now, "cancel", "", 0)
    /\ UNCHANGED <<ignoreMin, tickVals, noiseActive, paused, contracts,
                   currentTargetValue, settings, rawResources, tierCache,
                   gen>>

\* AnimatePresence drops the card of a contract that left the list: the
\* cleanup of the effect cancels the requested frame
CardUnmount ==
    /\ card.mounted
    /\ ~card.listed
    /\ card' = [card EXCEPT !.mounted = FALSE, !.loop = FALSE]
    /\ Commit(Now, "unmount", "", 0)
    /\ UNCHANGED <<ignoreMin, tickVals, noiseActive, paused, contracts,
                   currentTargetValue, settings, rawResources, tierCache,
                   gen>>

----------------------------------------------------------------------------
(* Specifications *)

\* setResourceValue alone, from the initial snapshot
InitSet ==
    /\ values = buildInitial.initVals
    /\ histories = buildInitial.initHist
    /\ actionLog = << >>
    /\ ignoreMin = FALSE
    /\ tickVals = NoVals
    /\ noiseActive = FALSE
    /\ paused = TRUE
    /\ contracts = << >>
    /\ currentTargetValue = StartTargetValue * Scale
    /\ contractCount = 3
    /\ contractDifficulty = 100
    /\ maxResources = 6
    /\ rewardMinMultiplier = 10
    /\ rewardMaxMultiplier = 14
    /\ labelPool = ContractLabels(1)
    /\ rawResources = rawResourcesOf(ResourceOrder, Components)
    /\ tierCache = loadResources(rawResources)
    /\ noiseInterval = DefaultInterval
    /\ ticked = << >>
    /\ card = NoCard
    /\ gen = NoGeneration
    /\ lastOp = [op |-> "init", name |-> "", arg |-> 0]
    /\ before = << >>
    /\ steps = 0
    /\ budget = SetSteps

NextSet == SetResourceValue

SpecSet == InitSet /\ [][NextSet]_vars

\* the resource state engine
Next ==
    \/ SetResourceValue
    \/ UndoLastChange
    \/ ResetResources
    \/ ToggleIgnoreMin

Spec == Init /\ [][Next]_vars

\* the same engine, explored one operation deeper without undo and reset
InitDeep ==
    /\ values = buildInitial.initVals
    /\ histories = buildInitial.initHist
    /\ actionLog = << >>
    /\ ignoreMin = FALSE
    /\ tickVals = NoVals
    /\ noiseActive = FALSE
    /\ paused = TRUE
    /\ contracts = << >>
    /\ currentTargetValue = StartTargetValue * Scale
    /\ contractCount = 3
    /\ contractDifficulty = 100
    /\ maxResources = 6
    /\ rewardMinMultiplier = 10
    /\ rewardMaxMultiplier = 14
    /\ labelPool = ContractLabels(1)
    /\ rawResources = rawResourcesOf(ResourceOrder, Components)
    /\ tierCache = loadResources(rawResources)
    /\ noiseInterval = DefaultInterval
    /\ ticked = << >>
    /\ card = NoCard
    /\ gen = NoGeneration
    /\ lastOp = [op |-> "init", name |-> "", arg |-> 0]
    /\ before = << >>
    /\ steps = 0
    /\ budget = DeepSteps

NextDeep ==
    \/ SetResourceValue
    \/ ToggleIgnoreMin

SpecDeep == InitDeep /\ [][NextDeep]_vars

\* the resource state engine with the noise generator, the hook's paused
\* flag at its default
InitNoise ==
    /\ values = buildInitial.initVals
    /\ histories = buildInitial.initHist
    /\ actionLog = << >>
    /\ ignoreMin = FALSE
    /\ tickVals = NoVals
    /\ noiseActive = FALSE
    /\ paused = FALSE
    /\ contracts = << >>
    /\ currentTargetValue = StartTargetValue * Scale
    /\ contractCount = 3
    /\ contractDifficulty = 100
    /\ maxResources = 6
    /\ rewardMinMultiplier = 10
    /\ rewardMaxMultiplier = 14
    /\ labelPool = ContractLabels(1)
    /\ rawResources = rawResourcesOf(ResourceOrder, Components)
    /\ tierCache = loadResources(rawResources)
    /\ noiseInterval = DefaultInterval
    /\ ticked = << >>
    /\ card = NoCard
    /\ gen = NoGeneration
    /\ lastOp = [op |-> "init", name |-> "", arg |-> 0]
    /\ before = << >>
    /\ steps = 0
    /\ budget = NoiseSteps

NextNoise ==
    \/ UndoLastChange
    \/ ToggleIgnoreMin
    \/ NoiseTick
    \/ ToggleNoise
    \/ SetPaused

SpecNoise == InitNoise /\ [][NextNoise]_vars

\* the contract lifecycle on top of the resource state engine, started from
\* a session restored from the store: not paused, one contract per session,
\* at most two distinct resources per contract, and the one active contract
\* generated against the initial values
InitContracts ==
    /\ values = buildInitial.initVals
    /\ histories = buildInitial.initHist
    /\ actionLog = << >>
    /\ ignoreMin = FALSE
    /\ tickVals = NoVals
    /\ noiseActive = FALSE
    /\ paused = FALSE
    /\ contractCount = 1
    /\ contractDifficulty = 100
    /\ maxResources = 2
    /\ rewardMinMultiplier = 10
    /\ rewardMaxMultiplier = 10
    /\ labelPool = ContractLabels(1)
    /\ rawResources = rawResourcesOf(ResourceOrder, Components)
    /\ tierCache = loadResources(rawResources)
    /\ noiseInterval = DefaultInterval
    /\ ticked = << >>
    /\ card = NoCard
    /\ currentTargetValue = StartTargetValue * Scale
    /\ contracts \in addNewContract(StartTargetValue * Scale, 1,
                                    buildInitial.initVals, 100, 2,
                                    [contracts |-> << >>,
                                     rewardMinMultiplier |-> 10,
                                     rewardMaxMultiplier |-> 10,
                                     labels |-> ContractLabels(1)])
    /\ gen = NoGeneration
    /\ lastOp = [op |-> "init", name |-> "", arg |-> 0]
    /\ before = << >>
    /\ steps = 0
    /\ budget = ContractSteps

NextContracts ==
    \/ MaintainContracts
    \/ CompleteContract
    \/ ContractDecay
    \/ (~MaintenanceDue /\ ToggleIgnoreMin)

SpecContracts == InitContracts /\ [][NextContracts]_vars

\* the contract lifecycle from a fresh start: paused, no contracts, the
\* settings panel already used to ask for one single-resource contract at
\* difficulty 0.5 and a fixed payout
InitLife ==
    /\ values = buildInitial.initVals
    /\ histories = buildInitial.initHist
    /\ actionLog = << >>
    /\ ignoreMin = FALSE
    /\ tickVals = NoVals
    /\ noiseActive = FALSE
    /\ paused = TRUE
    /\ contracts = << >>
    /\ currentTargetValue = StartTargetValue * Scale
    /\ contractCount = 1
    /\ contractDifficulty = 50
    /\ maxResources = 1
    /\ rewardMinMultiplier = 10
    /\ rewardMaxMultiplier = 10
    /\ labelPool = ContractLabels(1)
    /\ rawResources = rawResourcesOf(ResourceOrder, Components)
    /\ tierCache = loadResources(rawResources)
    /\ noiseInterval = DefaultInterval
    /\ ticked = << >>
    /\ card = NoCard
    /\ gen = NoGeneration
    /\ lastOp = [op |-> "init", name |-> "", arg |-> 0]
    /\ before = << >>
    /\ steps = 0
    /\ budget = LifeSteps

\* an event leaves the effects it triggers room to run
Room == steps + 1 < budget

NextLife ==
    \/ MaintainContracts
    \/ (Room /\ TogglePause)
    \/ (Room /\ CompleteContract)
    \/ (Room /\ ContractDecay)
    \/ (Room /\ ResetResources)
    \/ (Room /\ CompleteRemoved)
    \/ (Room /\ DecayRemoved)
    \/ (Room /\ SetContractCount)
    \/ (Room /\ SetContractDifficulty)

SpecLife == InitLife /\ [][NextLife]_vars

\* the same lifecycle one operation shorter, with the scheduling of the
\* maintenance effect: it runs after every render that leaves it work
InitFair ==
    /\ values = buildInitial.initVals
    /\ histories = buildInitial.initHist
    /\ actionLog = << >>
    /\ ignoreMin = FALSE
    /\ tickVals = NoVals
    /\ noiseActive = FALSE
    /\ paused = TRUE
    /\ contracts = << >>
    /\ currentTargetValue = StartTargetValue * Scale
    /\ contractCount = 1
    /\ contractDifficulty = 50
    /\ maxResources = 1
    /\ rewardMinMultiplier = 10
    /\ rewardMaxMultiplier = 10
    /\ labelPool = ContractLabels(1)
    /\ rawResources = rawResourcesOf(ResourceOrder, Components)
    /\ tierCache = loadResources(rawResources)
    /\ noiseInterval = DefaultInterval
    /\ ticked = << >>
    /\ card = NoCard
    /\ gen = NoGeneration
    /\ lastOp = [op |-> "init", name |-> "", arg |-> 0]
    /\ before = << >>
    /\ steps = 0
    /\ budget = FairSteps

SpecLifeFair ==
    InitFair /\ [][NextLife]_vars /\ WF_vars(MaintainContracts)

\* the reward of the generated contracts for the multipliers a caller of
\* the hook can pass, in either order and below the smallest payout: one
\* single-resource contract at difficulty 0.5, generated by the
\* maintenance effect of the first render
RewardInputs == {0, 2, 3}

InitReward ==
    /\ values = buildInitial.initVals
    /\ histories = buildInitial.initHist
    /\ actionLog = << >>
    /\ ignoreMin = FALSE
    /\ tickVals = NoVals
    /\ noiseActive = FALSE
    /\ paused = FALSE
    /\ contracts = << >>
    /\ currentTargetValue = StartTargetValue * Scale
    /\ contractCount = 1
    /\ contractDifficulty = 50
    /\ maxResources = 1
    /\ rewardMinMultiplier \in RewardInputs
    /\ rewardMaxMultiplier \in RewardInputs
    /\ labelPool = ContractLabels(1)
    /\ rawResources = rawResourcesOf(ResourceOrder, Components)
    /\ tierCache = loadResources(rawResources)
    /\ noiseInterval = DefaultInterval
    /\ ticked = << >>
    /\ card = NoCard
    /\ gen = NoGeneration
    /\ lastOp = [op |-> "init", name |-> "", arg |-> 0]
    /\ before = << >>
    /\ steps = 0
    /\ budget = RewardSteps

NextReward ==
    \/ MaintainContracts
    \/ CompleteContract

SpecReward == InitReward /\ [][NextReward]_vars

\* the lifecycle from a fresh start with a pool of two labels and a fixed
\* count of one
InitLabels ==
    /\ values = buildInitial.initVals
    /\ histories = buildInitial.initHist
    /\ actionLog = << >>
    /\ ignoreMin = FALSE
    /\ tickVals = NoVals
    /\ noiseActive = FALSE
    /\ paused = TRUE
    /\ contracts = << >>
    /\ currentTargetValue = StartTargetValue * Scale
    /\ contractCount = 1
    /\ contractDifficulty = 50
    /\ maxResources = 1
    /\ rewardMinMultiplier = 10
    /\ rewardMaxMultiplier = 10
    /\ labelPool = ContractLabels(2)
    /\ rawResources = rawResourcesOf(ResourceOrder, Components)
    /\ tierCache = loadResources(rawResources)
    /\ noiseInterval = DefaultInterval
    /\ ticked = << >>
    /\ card = NoCard
    /\ gen = NoGeneration
    /\ lastOp = [op |-> "init", name |-> "", arg |-> 0]
    /\ before = << >>
    /\ steps = 0
    /\ budget = LabelSteps

NextLabels ==
    \/ MaintainContracts
    \/ (Room /\ TogglePause)
    \/ (Room /\ CompleteContract)
    \/ (Room /\ ContractDecay)
    \/ (Room /\ ResetResources)

SpecLabels == InitLabels /\ [][NextLabels]_vars

\* the engine under calls with malformed arguments; a run is not followed
\* past an infinite value
InitInputs ==
    /\ values = buildInitial.initVals
    /\ histories = buildInitial.initHist
    /\ actionLog = << >>
    /\ ignoreMin = FALSE
    /\ tickVals = NoVals
    /\ noiseActive = FALSE
    /\ paused = TRUE
    /\ contracts = << >>
    /\ currentTargetValue = StartTargetValue * Scale
    /\ contractCount = 3
    /\ contractDifficulty = 100
    /\ maxResources = 6
    /\ rewardMinMultiplier = 10
    /\ rewardMaxMultiplier = 14
    /\ labelPool = ContractLabels(1)
    /\ rawResources = rawResourcesOf(ResourceOrder, Components)
    /\ tierCache = loadResources(rawResources)
    /\ noiseInterval = DefaultInterval
    /\ ticked = << >>
    /\ card = NoCard
    /\ gen = NoGeneration
    /\ lastOp = [op |-> "init", name |-> "", arg |-> 0]
    /\ before = << >>
    /\ steps = 0
    /\ budget = InputSteps

AllFinite == \A r \in Resources : values[r] < Infinity /\ values[r] > -Infinity

NextInputs ==
    \/ (AllFinite /\ SetResourceValue)
    \/ (AllFinite /\ SetMalformed)
    \/ (AllFinite /\ ToggleIgnoreMin)

SpecInputs == InitInputs /\ [][NextInputs]_vars

\* the scheduling of the noise: the switch, the pause, the two settings the
\* interval effect depends on, and the timer
InitSchedule ==
    /\ values = buildInitial.initVals
    /\ histories = buildInitial.initHist
    /\ actionLog = << >>
    /\ ignoreMin = FALSE
    /\ tickVals = NoVals
    /\ noiseActive = FALSE
    /\ paused = TRUE
    /\ contracts = << >>
    /\ currentTargetValue = StartTargetValue * Scale
    /\ contractCount = 3
    /\ contractDifficulty = 100
    /\ maxResources = 6
    /\ rewardMinMultiplier = 10
    /\ rewardMaxMultiplier = 14
    /\ labelPool = ContractLabels(1)
    /\ rawResources = rawResourcesOf(ResourceOrder, Components)
    /\ tierCache = loadResources(rawResources)
    /\ noiseInterval = DefaultInterval
    /\ ticked = << >>
    /\ card = NoCard
    /\ gen = NoGeneration
    /\ lastOp = [op |-> "init", name |-> "", arg |-> 0]
    /\ before = << >>
    /\ steps = 0
    /\ budget = ScheduleSteps

NextSchedule ==
    \/ ToggleNoise
    \/ SetPaused
    \/ NoiseTick
    \/ ToggleIgnoreMin
    \/ SetNoiseInterval

SpecSchedule == InitSchedule /\ [][NextSchedule]_vars

\* the card of the decaying contract from its first render, in a paused or
\* a running App
InitCard ==
    /\ values = buildInitial.initVals
    /\ histories = buildInitial.initHist
    /\ actionLog = << >>
    /\ ignoreMin = FALSE
    /\ tickVals = NoVals
    /\ noiseActive = FALSE
    /\ paused \in BOOLEAN
    /\ contracts = << >>
    /\ currentTargetValue = StartTargetValue * Scale
    /\ contractCount = 3
    /\ contractDifficulty = 100
    /\ maxResources = 6
    /\ rewardMinMultiplier = 10
    /\ rewardMaxMultiplier = 14
    /\ labelPool = ContractLabels(1)
    /\ rawResources = rawResourcesOf(ResourceOrder, Components)
    /\ tierCache = loadResources(rawResources)
    /\ noiseInterval = DefaultInterval
    /\ ticked = << >>
    /\ card = decayEffect([NoCard EXCEPT !.mounted = TRUE, !.listed = TRUE],
                          paused)
    /\ gen = NoGeneration
    /\ lastOp = [op |-> "init", name |-> "", arg |-> 0]
    /\ before = << >>
    /\ steps = 0
    /\ budget = CardSteps

NextCard ==
    \/ CardFrame
    \/ CardSetPaused
    \/ CardRerender
    \/ CardActivate
    \/ CardConfirmYes
    \/ CardCancel
    \/ CardUnmount

SpecCard == InitCard /\ [][NextCard]_vars

\* bundle generation at half difficulty with at most two resource types per
\* contract: a restored session that is running with its one contract
InitBundles ==
    /\ values = buildInitial.initVals
    /\ histories = buildInitial.initHist
    /\ actionLog = << >>
    /\ ignoreMin = FALSE
    /\ tickVals = NoVals
    /\ noiseActive = FALSE
    /\ paused = FALSE
    /\ contractCount = 1
    /\ contractDifficulty = 50
    /\ maxResources = 2
    /\ rewardMinMultiplier = 10
    /\ rewardMaxMultiplier = 10
    /\ labelPool = ContractLabels(1)
    /\ rawResources = rawResourcesOf(ResourceOrder, Components)
    /\ tierCache = loadResources(rawResources)
    /\ noiseInterval = DefaultInterval
    /\ ticked = << >>
    /\ card = NoCard
    /\ currentTargetValue = StartTargetValue * Scale
    /\ contracts \in addNewContract(StartTargetValue * Scale, 1,
                                    buildInitial.initVals, 50, 2,
                                    [contracts |-> << >>,
                                     rewardMinMultiplier |-> 10,
                                     rewardMaxMultiplier |-> 10,
                                     labels |-> ContractLabels(1)])
    /\ gen = NoGeneration
    /\ lastOp = [op |-> "init", name |-> "", arg |-> 0]
    /\ before = << >>
    /\ steps = 0
    /\ budget = BundleSteps

NextBundles ==
    \/ MaintainContracts
    \/ CompleteContract
    \/ ContractDecay
    \/ (~MaintenanceDue /\ ToggleIgnoreMin)

SpecBundles == InitBundles /\ [][NextBundles]_vars

\* the escalator and the two generating effects: a restored session that is
\* running with its one contract (difficulty 0.5, one resource per contract)
InitEscalator ==
    /\ values = buildInitial.initVals
    /\ histories = buildInitial.initHist
    /\ actionLog = << >>
    /\ ignoreMin = FALSE
    /\ tickVals = NoVals
    /\ noiseActive = FALSE
    /\ paused = FALSE
    /\ contractCount = 1
    /\ contractDifficulty = 50
    /\ maxResources = 1
    /\ rewardMinMultiplier = 10
    /\ rewardMaxMultiplier = 10
    /\ labelPool = ContractLabels(1)
    /\ rawResources = rawResourcesOf(ResourceOrder, Components)
    /\ tierCache = loadResources(rawResources)
    /\ noiseInterval = DefaultInterval
    /\ ticked = << >>
    /\ card = NoCard
    /\ currentTargetValue = StartTargetValue * Scale
    /\ contracts \in addNewContract(StartTargetValue * Scale, 1,
                                    buildInitial.initVals, 50, 1,
                                    [contracts |-> << >>,
                                     rewardMinMultiplier |-> 10,
                                     rewardMaxMultiplier |-> 10,
                                     labels |-> ContractLabels(1)])
    /\ gen = NoGeneration
    /\ lastOp = [op |-> "init", name |-> "", arg |-> 0]
    /\ before = << >>
    /\ steps = 0
    /\ budget = EscalatorSteps

NextEscalator ==
    \/ MaintainContracts
    \/ (Room /\ TogglePause)
    \/ (Room /\ CompleteContract)

SpecEscalator == InitEscalator /\ [][NextEscalator]_vars

\* completion and decay on values that edits have moved: a running session
\* with its one contract in which ignore-minimum has been switched on
InitWear ==
    /\ values = buildInitial.initVals
    /\ histories = buildInitial.initHist
    /\ actionLog = << >>
    /\ ignoreMin = TRUE
    /\ tickVals = NoVals
    /\ noiseActive = FALSE
    /\ paused = FALSE
    /\ contractCount = 1
    /\ contractDifficulty = 50
    /\ maxResources = 1
    /\ rewardMinMultiplier = 10
    /\ rewardMaxMultiplier = 10
    /\ labelPool = ContractLabels(1)
    /\ rawResources = rawResourcesOf(ResourceOrder, Components)
    /\ tierCache = loadResources(rawResources)
    /\ noiseInterval = DefaultInterval
    /\ ticked = << >>
    /\ card = NoCard
    /\ currentTargetValue = StartTargetValue * Scale
    /\ contracts \in addNewContract(StartTargetValue * Scale, 1,
                                    buildInitial.initVals, 50, 1,
                                    [contracts |-> << >>,
                                     rewardMinMultiplier |-> 10,
                                     rewardMaxMultiplier |-> 10,
                                     labels |-> ContractLabels(1)])
    /\ gen = NoGeneration
    /\ lastOp = [op |-> "init", name |-> "", arg |-> 0]
    /\ before = << >>
    /\ steps = 0
    /\ budget = WearSteps

NextWear ==
    \/ MaintainContracts
    \/ (~MaintenanceDue /\ ToggleIgnoreMin)
    \/ (~MaintenanceDue /\ DecResource)
    \/ CompleteContract
    \/ ContractDecay

SpecWear == InitWear /\ [][NextWear]_vars

\* generation step by step: a fresh session (paused, no contracts) in which
\* ignore-minimum is on; the values are edited before the session is started
InitGenerate ==
    /\ values = buildInitial.initVals
    /\ histories = buildInitial.initHist
    /\ actionLog = << >>
    /\ ignoreMin = TRUE
    /\ tickVals = NoVals
    /\ noiseActive = FALSE
    /\ paused = TRUE
    /\ contracts = << >>
    /\ currentTargetValue = StartTargetValue * Scale
    /\ contractCount = 1
    /\ contractDifficulty = 50
    /\ maxResources = 1
    /\ rewardMinMultiplier = 10
    /\ rewardMaxMultiplier = 10
    /\ labelPool = ContractLabels(1)
    /\ rawResources = rawResourcesOf(ResourceOrder, Components)
    /\ tierCache = loadResources(rawResources)
    /\ noiseInterval = DefaultInterval
    /\ ticked = << >>
    /\ card = NoCard
    /\ gen = NoGeneration
    /\ lastOp = [op |-> "init", name |-> "", arg |-> 0]
    /\ before = << >>
    /\ steps = 0
    /\ budget = GenerateSteps

NextGenerate ==
    \/ DecRawMaterial
    \/ BeginGenerate
    \/ \E resName \in Resources : LoopAdd(resName)
    \/ LoopEnd

\* an iteration that leaves the loop or raises the running total
LoopAdvance ==
    \/ LoopEnd
    \/ \E resName \in Resources : values[resName] > 0 /\ LoopAdd(resName)

\* the loop keeps iterating, and when a draw that advances it is possible
\* again and again, Math.random() makes it at some point
SpecGenerate ==
    /\ InitGenerate
    /\ [][NextGenerate]_vars
    /\ WF_vars(LoopEnd \/ \E resName \in Resources : LoopAdd(resName))
    /\ SF_vars(LoopAdvance)

\* Tier derivation over every configuration of three declared resources
\* whose component lists have at most MaxComponents entries, drawn from
\* the declared names, an undeclared name and an undeclared name that
\* Object.prototype knows.
TierOrder == <<"a", "b", "c">>

ComponentNames == SeqToSet(TierOrder) \cup {"x"} \cup InheritedNames

ComponentLists == UNION {[1..n -> ComponentNames] : n \in 0..MaxComponents}

InitTiers ==
    /\ values = buildInitial.initVals
    /\ histories = buildInitial.initHist
    /\ actionLog = << >>
    /\ ignoreMin = FALSE
    /\ tickVals = NoVals
    /\ noiseActive = FALSE
    /\ paused = TRUE
    /\ contracts = << >>
    /\ currentTargetValue = StartTargetValue * Scale
    /\ contractCount = 3
    /\ contractDifficulty = 100
    /\ maxResources = 6
    /\ rewardMinMultiplier = 10
    /\ rewardMaxMultiplier = 14
    /\ labelPool = ContractLabels(1)
    /\ \E comps \in [SeqToSet(TierOrder) -> ComponentLists] :
         rawResources = rawResourcesOf(TierOrder, comps)
    /\ tierCache = NotLoaded
    /\ noiseInterval = DefaultInterval
    /\ ticked = << >>
    /\ card = NoCard
    /\ gen = NoGeneration
    /\ lastOp = [op |-> "init", name |-> "", arg |-> 0]
    /\ before = << >>
    /\ steps = 0
    /\ budget = 1

\* the import of constants/resources.js
LoadResources ==
    /\ ~tierCache.loaded
    /\ tierCache' = loadResources(rawResources)
    /\ Commit(Now, "load", "", 0)
    /\ UNCHANGED <<ignoreMin, tickVals, noiseActive, paused, contracts,
                   currentTargetValue, settings, rawResources, card, gen>>

NextTiers == LoadResources

SpecTiers == InitTiers /\ [][NextTiers]_vars

----------------------------------------------------------------------------
(* Properties *)

Derived == {r \in Resources : Components[r] # << >>}

LastGroup == actionLog[Len(actionLog)]

\* every resource reachable from name along dependentsMap
RECURSIVE Reach(_, _)
Reach(frontier, seen) ==
    IF frontier = {} THEN seen
    ELSE LET found == UNION {SeqToSet(dependentsMap[x]) : x \in frontier} \ seen
         IN Reach(found, seen \cup found)

TransitiveDependents(name) == Reach({name}, {})

RECURSIVE UndoTimes(_, _)
UndoTimes(st, k) == IF k = 0 THEN st ELSE UndoTimes(undoLastChange(st), k - 1)

\* C1: after any sequence of setResourceValue calls from the initial
\* snapshot with ignoreMin false, every derived resource is at least the sum
\* of the current values of its components.
C1_FloorAfterSets ==
    ~ignoreMin =>
        \A r \in Derived : values[r] >= SumOver(Components[r], 1, values)

\* a set that cascaded to two dependents, made after an earlier set
C1_Witness ==
    /\ lastOp.op = "set"
    /\ ~ignoreMin
    /\ Len(actionLog) >= 2
    /\ Len(LastGroup) >= 3

\* C2: in every reachable state with ignoreMin false, whatever operations
\* led to it, every resource is at least its minimum on the current values.
C2_FloorWhenEnforced ==
    ~ignoreMin => \A r \in Resources : values[r] >= computeMin(r, values)

\* C3: when setResourceValue raises a resource with ignoreMin false, every
\* direct or transitive dependent that was below its minimum recomputed on
\* the new values ends at exactly that minimum, recorded in the same group
\* after the primary record and flagged cascading.
C3_CascadeReachesAllDependents ==
    (/\ lastOp.op = "set"
     /\ ~ignoreMin
     /\ Len(actionLog) = Len(before)
     /\ actionLog # << >>
     /\ LastGroup[1].name = lastOp.name
     /\ LastGroup[1].nextValue > LastGroup[1].prevValue)
    => LET pre == before[Len(actionLog)]
       IN /\ ~LastGroup[1].cascading
          /\ \A i \in 2..Len(LastGroup) : LastGroup[i].cascading
          /\ \A d \in TransitiveDependents(lastOp.name) :
                pre[d] < computeMin(d, values) =>
                   /\ values[d] = computeMin(d, values)
                   /\ \E i \in 2..Len(LastGroup) :
                         /\ LastGroup[i].name = d
                         /\ LastGroup[i].nextValue = values[d]

\* C4: k consecutive undos, for every k up to the length of the log, leave
\* the values as they were before the k undone groups and shorten the log by
\* exactly k; k = 1 after a set is the single undo of that set.
C4_UndoRestoresValues ==
    /\ Len(before) = Len(actionLog)
    /\ \A k \in 1..Len(actionLog) :
          LET undone == UndoTimes(Now, k)
          IN /\ undone.values = before[Len(actionLog) - k + 1]
             /\ Len(undone.actionLog) = Len(actionLog) - k

\* two groups on the log, the last one a set with cascading records
C4_Witness ==
    /\ lastOp.op = "set"
    /\ Len(actionLog) >= 2
    /\ Len(LastGroup) >= 2
    /\ UndoTimes(Now, 2).values # values

\* C5: an undo right after a set leaves every history as it was before the
\* set (one sample removed per undone record), also when the value set
\* equals the previous value.
C5_UndoRestoresHistories ==
    [][lastOp'.op = "set" =>
         undoLastChange(Engine(values', histories', actionLog')).histories
            = histories]_vars

\* C6: after ignoreMin goes from true to false the scan leaves every
\* resource at or above its minimum computed on the resulting values, each
\* raise being a group of one record.
C6_ScanRestoresFloor ==
    [][(lastOp'.op = "toggleIgnoreMin" /\ ignoreMin /\ ~ignoreMin') =>
         /\ \A r \in Resources : values'[r] >= computeMin(r, values')
         /\ \A j \in (Len(actionLog) + 1)..Len(actionLog') :
               Len(actionLog'[j]) = 1]_vars

C8_TickKeepsMinimum ==
    [][(lastOp'.op \in {"tick", "toggleNoise", "setPaused"} /\ ~ignoreMin) =>
         \A r \in Resources :
            values[r] = computeMin(r, values) =>
               /\ values'[r] >= values[r]
               /\ \A j \in (Len(actionLog) + 1)..Len(actionLog') :
                     \A i \in 1..Len(actionLog'[j]) :
                        actionLog'[j][i].name = r =>
                           actionLog'[j][i].nextValue >= values[r]]_vars

\* an interval tick with ignoreMin false in which a component of a resource
\* that was exactly at its minimum went up
C8_Witness ==
    /\ lastOp.op = "tick"
    /\ ~ignoreMin
    /\ \E r \in Derived :
          /\ lastOp.arg[r] = computeMin(r, lastOp.arg)
          /\ \E c \in SeqToSet(Components[r]) : values[c] > lastOp.arg[c]

\* max(2, floor(v * (1 - 0.05 * qty))) and ceil(v * (1 + 0.05 * qty)) as the
\* double-precision expressions evaluate
CompletionTarget(v, qty) ==
    LET down == ((v * (20 - qty)) \div 20)
                - (IF <<v, qty>> \in FloorOff THEN 1 ELSE 0)
    IN IF down < 2 THEN 2 ELSE down

DecayTarget(v, qty) ==
    (IF (v * (20 + qty)) % 20 = 0 THEN (v * (20 + qty)) \div 20
     ELSE ((v * (20 + qty)) \div 20) + 1)
    + (IF <<v, qty>> \in CeilOff THEN 1 ELSE 0)

\* the value setResourceValue writes for a proposed value
Clamped(name, proposed) ==
    IF ~ignoreMin /\ proposed < computeMin(name, values)
    THEN computeMin(name, values) ELSE proposed

\* C9 as stated: completeContract leaves each bundled resource at exactly
\* max(2, floor(v * (1 - 0.05 * qty))), written past the minimum clamp.
C9_CompletionBypassesClamp ==
    [][lastOp'.op = "complete" =>
         \A i \in 1..Len(lastOp'.arg.resources) :
            LET e == lastOp'.arg.resources[i]
            IN values'[e.name] = CompletionTarget(values[e.name], e.qty)]_vars

\* C9 amended: completeContract passes max(2, floor(v * (1 - 0.05 * qty)))
\* for each bundled resource, in bundle order, to setResourceValue: the
\* primary record logged for it carries that target, raised to the
\* resource's minimum on the values before the call when ignoreMin is false;
\* the resource ends at least there, and exactly at the target when
\* ignoreMin is true.
C9_CompletionIsClamped ==
    [][lastOp'.op = "complete" =>
         /\ Len(actionLog') = Len(actionLog) + Len(lastOp'.arg.resources)
         /\ \A i \in 1..Len(lastOp'.arg.resources) :
               LET e == lastOp'.arg.resources[i]
                   written == Clamped(e.name,
                                      CompletionTarget(values[e.name], e.qty))
                   primary == actionLog'[Len(actionLog) + i][1]
               IN /\ primary.name = e.name
                  /\ primary.nextValue = written
                  /\ values'[e.name] >= written
                  /\ ignoreMin =>
                        values'[e.name] =
                           CompletionTarget(values[e.name], e.qty)]_vars

\* a completion with ignoreMin false whose target for a bundled resource
\* was below that resource's minimum
C9_Witness ==
    /\ lastOp.op = "complete"
    /\ ~ignoreMin
    /\ Len(actionLog) = Len(lastOp.arg.resources)
    /\ \E i \in 1..Len(lastOp.arg.resources) :
          LET e == lastOp.arg.resources[i]
              pre == before[1]
          IN /\ CompletionTarget(pre[e.name], e.qty) < computeMin(e.name, pre)
             /\ values[e.name] = computeMin(e.name, pre)

\* C10 as stated: onContractDecay removes the contract and leaves each
\* bundled resource at exactly ceil(v * (1 + 0.05 * qty)).
C10_DecaySetsExactly ==
    [][lastOp'.op = "decay" =>
         /\ contracts' = FilterOut(contracts, lastOp'.arg.id)
         /\ \A i \in 1..Len(lastOp'.arg.resources) :
               LET e == lastOp'.arg.resources[i]
               IN values'[e.name] = DecayTarget(values[e.name], e.qty)]_vars

\* C10 amended: onContractDecay removes the contract and passes
\* ceil(v * (1 + 0.05 * qty)) for each bundled resource, in bundle order, to
\* setResourceValue: the primary record logged for it carries that target
\* (raised to the resource's minimum on the values before the call when
\* ignoreMin is false); the resource ends at least there, a later cascade of
\* the same call may have raised it further, and it ends exactly at the
\* target when ignoreMin is true.
C10_DecayRaisesAtLeast ==
    [][lastOp'.op = "decay" =>
         /\ contracts' = FilterOut(contracts, lastOp'.arg.id)
         /\ Len(actionLog') = Len(actionLog) + Len(lastOp'.arg.resources)
         /\ \A i \in 1..Len(lastOp'.arg.resources) :
               LET e == lastOp'.arg.resources[i]
                   written == Clamped(e.name, DecayTarget(values[e.name], e.qty))
                   primary == actionLog'[Len(actionLog) + i][1]
               IN /\ primary.name = e.name
                  /\ primary.nextValue = written
                  /\ values'[e.name] >= written
                  /\ ignoreMin =>
                        values'[e.name] = DecayTarget(values[e.name], e.qty)]_vars

\* a decay whose later raise of a component cascaded into a bundled
\* resource already written
C10_Witness ==
    /\ lastOp.op = "decay"
    /\ ~ignoreMin
    /\ Len(actionLog) = Len(lastOp.arg.resources)
    /\ \E i \in 1..Len(lastOp.arg.resources) :
          LET e == lastOp.arg.resources[i]
          IN values[e.name] > DecayTarget(before[1][e.name], e.qty)


----------------------------------------------------------------------------
(* Contract lifecycle *)

\* C11: completeContract(id) and onContractDecay(id) called with an id that
\* no active contract has change nothing: the contract list, the escalator,
\* the resource values, the histories and the action log stay as they were
C11_StaleIdIsNoOp ==
    [][lastOp'.op \in {"completeRemoved", "decayRemoved"}
       => UNCHANGED <<contracts, currentTargetValue, values, histories,
                      actionLog>>]_vars

\* C12: the escalator changes only when a contract is completed (times 1.1,
\* one contract leaving the list) and on reset (back to the start value);
\* every other operation leaves it as it was
C12_EscalatorOnlyByCompletionAndReset ==
    [][/\ currentTargetValue' # currentTargetValue
          => \/ /\ lastOp'.op = "complete"
                /\ Len(contracts') < Len(contracts)
                /\ currentTargetValue' = (currentTargetValue * 11) \div 10
             \/ /\ lastOp'.op = "reset"
                /\ currentTargetValue' = StartTargetValue * Scale
       /\ currentTargetValue' < currentTargetValue => lastOp'.op = "reset"
      ]_vars

\* App: decay={idx === contracts.length - 1}, the one card whose timer runs
DecayEligible == contracts[Len(contracts)]

\* C13: while contracts are active and the timers run, the contract whose
\* decay timer runs is a most recently added one: no active contract was
\* added after it
C13_OnlyNewestDecays ==
    (~paused /\ contracts # << >>)
    => \A i \in 1..Len(contracts) : contracts[i].added <= DecayEligible.added

RECURSIVE Remains(_, _)
Remains(cs, prev) ==
    IF cs = << >> THEN TRUE
    ELSE IF prev = << >> THEN FALSE
    ELSE IF Head(cs) = Head(prev) THEN Remains(Tail(cs), Tail(prev))
    ELSE Remains(cs, Tail(prev))

\* C15: while paused no contract is added and no surplus is trimmed: over
\* every step taken in the pause the list keeps its contracts, except those
\* removed by a completion, a decay or a reset, whatever the settings are
\* changed to
C15_PausedListOnlyShrinks ==
    [][(paused /\ paused')
       => /\ Remains(contracts', contracts)
          /\ contracts' # contracts
                => lastOp'.op \in {"complete", "decay", "reset"}]_vars

C15_Witness ==
    /\ paused
    /\ lastOp.op = "setContractCount"
    /\ contracts # << >>
    /\ Len(contracts) # contractCount

RECURSIVE BundleValue(_, _)
BundleValue(resources, vals) ==
    IF resources = << >> THEN 0
    ELSE Head(resources).qty * vals[Head(resources).name]
         + BundleValue(Tail(resources), vals)

\* C17: every contract the maintenance effect generates, specialist or
\* general, has as its value the sum over its bundle of quantity times the
\* value the resource had when the contract was generated
C17_ValueIsBundleSum ==
    [][(lastOp'.op = "maintain" /\ Len(contracts') > Len(contracts))
       => \A i \in 1..(Len(contracts') - Len(contracts)) :
             contracts'[i].value = BundleValue(contracts'[i].resources, values)
      ]_vars

C17_Witness ==
    /\ lastOp.op = "maintain"
    /\ \E i \in 1..Len(contracts) :
          /\ Len(contracts[i].resources) = 2
          /\ contracts[i].resources[1].qty >= 2
          /\ contracts[i].value = BundleValue(contracts[i].resources, values)

\* C18 as claimed: every generated contract records as its rewardRange the
\* smaller and the larger of the two multipliers passed to the hook, in
\* whichever order they are passed, and its reward is floor(value * m) for
\* a multiplier m of that range
C18_RangeIsMinMaxOfInputs ==
    \A i \in 1..Len(contracts) :
       LET lo == Min2(rewardMinMultiplier, rewardMaxMultiplier)
           hi == Max2(rewardMinMultiplier, rewardMaxMultiplier)
       IN /\ contracts[i].rewardRange = [min |-> lo, max |-> hi]
          /\ contracts[i].reward >= (contracts[i].value * lo) \div 10
          /\ contracts[i].reward <= (contracts[i].value * hi) \div 10

\* C18 as the code has it: the recorded rewardRange is [lo, hi] with
\* lo = max(0.1, min(rewardMin, rewardMax)) and hi = max(lo, rewardMax),
\* and the reward is floor(value * m), in double precision, for a
\* multiplier m of [lo, hi]
C18_RangeIsClampedToMax ==
    \A i \in 1..Len(contracts) :
       LET lo == Max2(1, Min2(rewardMinMultiplier, rewardMaxMultiplier))
           hi == Max2(lo, rewardMaxMultiplier)
           off(m) == IF <<contracts[i].value, m>> \in RewardOff THEN 1 ELSE 0
       IN /\ contracts[i].rewardRange = [min |-> lo, max |-> hi]
          /\ contracts[i].reward >= ((contracts[i].value * lo) \div 10) - off(lo)
          /\ contracts[i].reward <= ((contracts[i].value * hi) \div 10) - off(hi)

C18_Witness ==
    /\ lastOp.op = "maintain"
    /\ rewardMinMultiplier > rewardMaxMultiplier
    /\ rewardMaxMultiplier >= 1
    /\ contracts # << >>
    /\ contracts[1].value > 0
    /\ contracts[1].rewardRange.min = contracts[1].rewardRange.max

\* C19: as long as some pool label is carried by no active contract, the
\* active contracts carry pairwise different labels and none of them
\* carries the fallback name
C19_LabelsDistinct ==
    LET used == {contracts[i].label : i \in 1..Len(contracts)}
    IN (labelPool \ used # {})
       => /\ \A i, j \in 1..Len(contracts) :
                i # j => contracts[i].label # contracts[j].label
          /\ used \subseteq labelPool

\* C20: the active contracts have pairwise different ids
C20_IdsDistinct ==
    \A i, j \in 1..Len(contracts) : i # j => contracts[i].id # contracts[j].id

----------------------------------------------------------------------------
(* Malformed input, tiers, noise scheduling *)

\* C21: setResourceValue with an unknown resource name, or with a value
\* that is not a finite number, changes nothing: values, histories and the
\* action log stay as they were
C21_MalformedCallIsNoOp ==
    [][lastOp'.op = "setMalformed"
       => UNCHANGED <<values, histories, actionLog>>]_vars

\* the components of a declared resource
ComponentsOf(name) ==
    LET i == CHOOSE k \in 1..Len(rawResources) : rawResources[k].name = name
    IN SeqToSet(rawResources[i].components)

AllDeclared ==
    \A n \in Declared(rawResources) : ComponentsOf(n) \subseteq Declared(rawResources)

RECURSIVE ReachedFrom(_, _)
ReachedFrom(S, k) ==
    IF k = 0 THEN S
    ELSE ReachedFrom(S \cup UNION {ComponentsOf(n) :
                                     n \in S \cap Declared(rawResources)},
                     k - 1)

\* some declared resource is, directly or through others, its own component
Cyclic ==
    \E n \in Declared(rawResources) :
       n \in ReachedFrom(ComponentsOf(n), Len(rawResources))

C23_CycleOrUnknownFails ==
    (tierCache.loaded /\ (Cyclic \/ ~AllDeclared)) => tierCache.err # NoError

\* C24: an operation runs a noise tick only if it leaves the noise switched
\* on and the simulation not paused; switching the noise on while not paused
\* runs exactly one tick at once, and every firing of the interval timer
\* runs exactly one tick
C24_TicksOnlyWhileRunning ==
    [][/\ ticked' # << >> => (noiseActive' /\ ~paused')
       /\ (lastOp'.op = "toggleNoise" /\ noiseActive' /\ ~paused')
          => Len(ticked') = 1
       /\ lastOp'.op = "tick" => (noiseActive /\ ~paused /\ Len(ticked') = 1)
      ]_vars

\* the noise was switched on while not paused, after it had been switched
\* off or paused before
C24_Witness ==
    /\ lastOp.op = "toggleNoise"
    /\ noiseActive /\ ~paused
    /\ Len(ticked) = 1
    /\ steps >= 2

\* C29: changing the noise interval or the ignore-minimum setting runs no
\* noise tick
C29_SettingChangeDoesNotTick ==
    [][lastOp'.op \in {"setNoiseInterval", "toggleIgnoreMin"}
       => ticked' = << >>]_vars

\* what the tick decided for a resource was 'no change': the 40% skip, or
\* a next value equal to the current one
NoChangeDecided(r) ==
    \/ ticked'[1][r] = "skip"
    \/ computeAdjustment(values[r], computeMin(r, values), ignoreMin,
                         ticked'[1][r]) = << >>

\* the change-groups an operation appended to the action log
Appended == {actionLog'[j] : j \in (Len(actionLog) + 1)..Len(actionLog')}

\* C25: an interval tick logs no primary change for a resource it decided
\* not to change, and a tick that decided 'no change' for every resource
\* leaves values, histories and the action log as they were
C25_NoChangeDecisionIsNoOp ==
    [][lastOp'.op = "tick"
       => /\ \A r \in Resources :
               NoChangeDecided(r) => \A g \in Appended : g[1].name # r
          /\ (\A r \in Resources : NoChangeDecided(r))
             => UNCHANGED <<values, histories, actionLog>>]_vars

FloorHolds(vals) == \A r \in Resources : vals[r] >= computeMin(r, vals)

\* C26: with ignoreMin false, an interval tick that starts with every
\* resource at or above its minimum ends with every resource at or above
\* its minimum on the new values
C26_TickKeepsFloor ==
    [][(lastOp'.op = "tick" /\ ~ignoreMin /\ FloorHolds(values))
       => FloorHolds(values')]_vars

\* C28: every primary change an interval tick logs moves its resource by
\* exactly 1, up or down
C28_TickMovesByOne ==
    [][lastOp'.op = "tick"
       => \A g \in Appended :
             Abs(g[1].nextValue - g[1].prevValue) = 1]_vars

\* C27: with ignoreMin false, the decay of a contract that starts with every
\* resource at or above its minimum ends with every resource at or above
\* its minimum on the new values
C27_DecayKeepsFloor ==
    [][(lastOp'.op = "decay" /\ ~ignoreMin /\ FloorHolds(values))
       => FloorHolds(values')]_vars

\* C30: while the pause lasts, the progress of the decaying contract's card
\* stands still and onDecay is not called; the progress never goes back, in
\* particular not when the pause ends; onDecay is called at most once, and
\* not once onComplete has been called
C30_DecayPausesAndFiresOnce ==
    [][/\ (paused /\ paused' /\ card.listed)
          => /\ card'.progress = card.progress
             /\ card'.decayCalls = card.decayCalls
       /\ card'.progress >= card.progress
       /\ (paused /\ ~paused') => card'.progress = card.progress
       /\ (card'.loop /\ lastOp'.op # "frame")
          => card'.base + card'.since = card'.progress
       /\ card'.decayCalls <= 1
       /\ card'.decayCalls > card.decayCalls => card.completeCalls = 0
      ]_vars

----------------------------------------------------------------------------
(* Frame of an edit, change-groups, histories; contract generation *)

\* C31: a setResourceValue call made with ignoreMin on, or one that does not
\* raise the named resource, changes the value of no other resource and
\* logs the primary record alone; a call that logs a cascade was made with
\* ignoreMin off and raised the named resource
C31_CascadeOnlyOnEnforcedIncrease ==
    [][lastOp'.op = "set"
       => LET name == lastOp'.name
              group == actionLog'[Len(actionLog')]
          IN /\ (ignoreMin \/ values'[name] <= values[name])
                => /\ \A r \in Resources \ {name} : values'[r] = values[r]
                   /\ Len(group) = 1
             /\ (\E r \in Resources \ {name} : values'[r] # values[r])
                => (~ignoreMin /\ values'[name] > values[name])]_vars

\* with ignoreMin on, an edit raised a component and left its dependent
\* below the sum of its components
C31_Witness ==
    /\ lastOp.op = "set"
    /\ ignoreMin
    /\ \E r \in Derived :
          /\ lastOp.name \in SeqToSet(Components[r])
          /\ values[lastOp.name] > buildInitial.initVals[lastOp.name]
          /\ values[r] < computeMin(r, values)

\* C32: every change-group of the action log holds at most one record per
\* resource, and its first record, and no other, is the primary one
C32_OneRecordPerResource ==
    \A j \in 1..Len(actionLog) :
       LET g == actionLog[j]
       IN \A i, k \in 1..Len(g) :
             /\ i # k => g[i].name # g[k].name
             /\ g[i].cascading <=> i > 1

\* an edit of coal cascaded into steel and plastics and, through both of
\* them, into consumer_goods
C32_Witness ==
    /\ lastOp.op = "set"
    /\ lastOp.name = "coal"
    /\ Len(LastGroup) = 4
    /\ LastGroup[4].name = "consumer_goods"
    /\ LastGroup[4].nextValue = values["steel"] + values["plastics"]

\* C33: the last sample of every resource's history is its current value
C33_HistoryEndsAtValue ==
    \A r \in Resources :
       /\ histories[r] # << >>
       /\ histories[r][Len(histories[r])] = values[r]

\* C34: an operation that makes the list of active contracts longer leaves
\* it no longer than the configured target count
C34_GenerationStaysWithinTarget ==
    [][Len(contracts') > Len(contracts)
       => Len(contracts') <= contractCount']_vars

\* C35: while the escalator is above its start value, every contract an
\* operation adds to the list was generated for the current escalator value
C35_SizedAgainstEscalator ==
    [][\A i \in 1..Len(contracts') :
          (/\ \A j \in 1..Len(contracts) : contracts'[i] # contracts[j]
           /\ currentTargetValue' > StartTargetValue * Scale)
          => contracts'[i].target = currentTargetValue']_vars

\* C37: the value of every generated contract is at most the target value it
\* was generated for times the difficulty multiplier in effect
C37_ValueWithinScaledTarget ==
    \A i \in 1..Len(contracts) :
        ~OverTarget(contracts[i].value, contracts[i].target,
                    contracts[i].difficulty)

\* a newly generated contract whose bundle fills its scaled target exactly
C37_Witness ==
    /\ lastOp.op = "maintain"
    /\ \E i \in 1..Len(contracts) :
          /\ contracts[i].value > 0
          /\ Cardinality(Names(contracts[i].resources)) = 2
          /\ ~BelowTarget(contracts[i].value, contracts[i].target,
                          contracts[i].difficulty)

\* C38: the bundle of every generated contract holds at most as many distinct
\* resource types as the recorded max-distinct-resources setting, and every
\* bundle the specialist branch of a generation could return holds at most 2
C38_DistinctTypesCapped ==
    /\ \A i \in 1..Len(contracts) :
          Cardinality(Names(contracts[i].resources))
             <= contracts[i].maxResources
    /\ lastOp.op = "maintain"
       => \A b \in specialistChoices(currentTargetValue, values,
                                     contractDifficulty, maxResources) :
             Cardinality(Names(b.resources)) <= 2

\* a contract that uses every type the setting allows while more types would
\* still fit its target, and a specialist bundle of two types
C38_Witness ==
    /\ lastOp.op = "maintain"
    /\ \E i \in 1..Len(contracts) :
          /\ Cardinality(Names(contracts[i].resources))
                = contracts[i].maxResources
          /\ contracts[i].maxResources < Cardinality(Resources)
          /\ \E name \in Resources \ Names(contracts[i].resources) :
                ~OverTarget(contracts[i].value + values[name],
                            contracts[i].target, contracts[i].difficulty)
    /\ \E b \in specialistChoices(currentTargetValue, values,
                                  contractDifficulty, maxResources) :
          Cardinality(Names(b.resources)) = 2

\* C39: completing a contract increases the value of no resource and a
\* decaying contract decreases the value of no resource
C39_CompletionLowersDecayRaises ==
    [][/\ lastOp'.op = "complete"
          => \A r \in Resources : values'[r] <= values[r]
       /\ lastOp'.op = "decay"
          => \A r \in Resources : values'[r] >= values[r]]_vars

\* C36: every call of generateRandomContract returns: a running accumulation
\* loop is eventually left
C36_GenerationTerminates == gen.running ~> ~gen.running

============================================================================
